---- MODULE Spec2Model ----
(***************************************************************************)
(* Record reconciliation engine of saisrikarravipati/test-script.          *)
(* The model follows src/ultimate.py (DataInserter): Python values, the    *)
(* value normalizer (serialize_field, ensure_parsed_json), the differ      *)
(* (records_differ), the reconciler (insert_or_update_record) and the      *)
(* batch driver (insert_data), against a storage collaborator that keeps   *)
(* the values it is given.                                                 *)
(***************************************************************************)
EXTENDS Integers, Sequences, FiniteSets, TLC

(***************************************************************************)
(* Python values.  A text is a sequence of one-character strings, so that  *)
(* json.dumps / json.loads / str.strip / str.replace are computed and not  *)
(* assumed.  Every value has the same record shape: t is the Python type,  *)
(* n and d carry a number (n / 10^d), s the characters of a str, kv the    *)
(* items of a list (k empty) or the key/value pairs of a dict, in order.   *)
(***************************************************************************)
Val(t, n, d, s, kv) == [t |-> t, n |-> n, d |-> d, s |-> s, kv |-> kv]

PyNone == Val("none", 0, 0, <<>>, <<>>)

PyBool(b) == Val("bool", IF b THEN 1 ELSE 0, 0, <<>>, <<>>)

PyInt(n) == Val("int", n, 0, <<>>, <<>>)

PyStr(s) == Val("str", 0, 0, s, <<>>)

PyList(kv) == Val("list", 0, 0, <<>>, kv)

PyDict(kv) == Val("dict", 0, 0, <<>>, kv)

Item(v) == [k |-> <<>>, v |-> v]

Pair(k, v) == [k |-> k, v |-> v]

Pow10(d) == CASE d = 0 -> 1 [] d = 1 -> 10 [] d = 2 -> 100 [] OTHER -> 1000

\* float(): the float with decimal mantissa m and d decimals, trailing zeros
\* dropped down to one decimal (0.80 is 0.8, 1.0 stays 1.0).
RECURSIVE PyFloat(_, _)
PyFloat(m, d) ==
    IF d > 1 /\ m % 10 = 0 THEN PyFloat(m \div 10, d - 1)
    ELSE Val("float", m, d, <<>>, <<>>)

IsNumber(v) == v.t \in {"bool", "int", "float"}

\* Python's ==  (object.__eq__ of NoneType, bool/int/float, str, list, dict):
\* numbers compare by value across bool, int and float; a list compares
\* item by item; a dict compares as a mapping, whatever the key order.
RECURSIVE PyEq(_, _)
PyEq(a, b) ==
    CASE IsNumber(a) /\ IsNumber(b) -> a.n * Pow10(b.d) = b.n * Pow10(a.d)
      [] a.t = "none" /\ b.t = "none" -> TRUE
      [] a.t = "str" /\ b.t = "str" -> a.s = b.s
      [] a.t = "list" /\ b.t = "list" ->
            /\ Len(a.kv) = Len(b.kv)
            /\ \A i \in 1..Len(a.kv) : PyEq(a.kv[i].v, b.kv[i].v)
      [] a.t = "dict" /\ b.t = "dict" ->
            /\ Len(a.kv) = Len(b.kv)
            /\ \A i \in 1..Len(a.kv) : \E j \in 1..Len(b.kv) :
                  a.kv[i].k = b.kv[j].k /\ PyEq(a.kv[i].v, b.kv[j].v)
      [] OTHER -> FALSE

(***************************************************************************)
(* Texts.                                                                  *)
(***************************************************************************)
Digits == <<"0", "1", "2", "3", "4", "5", "6", "7", "8", "9">>

IsDigit(c) == \E i \in 1..10 : Digits[i] = c

DigitVal(c) == (CHOOSE i \in 1..10 : Digits[i] = c) - 1

\* the whitespace json.loads skips and str.strip removes
Whitespace == {" ", "\t", "\n", "\r"}

RECURSIVE NatChars(_)
NatChars(n) ==
    IF n < 10 THEN <<Digits[n + 1]>>
    ELSE NatChars(n \div 10) \o <<Digits[(n % 10) + 1]>>

IntChars(n) == IF n < 0 THEN <<"-">> \o NatChars(-n) ELSE NatChars(n)

RECURSIVE FracChars(_, _)
FracChars(m, d) ==
    IF d = 0 THEN <<>>
    ELSE FracChars(m \div 10, d - 1) \o <<Digits[(m % 10) + 1]>>

\* repr() of a float
FloatChars(v) ==
    LET a == IF v.n < 0 THEN -v.n ELSE v.n
    IN  (IF v.n < 0 THEN <<"-">> ELSE <<>>)
          \o NatChars(a \div Pow10(v.d)) \o <<".">> \o FracChars(a % Pow10(v.d), v.d)

\* str.strip()
RECURSIVE LStrip(_)
LStrip(s) ==
    IF s # <<>> /\ Head(s) \in Whitespace THEN LStrip(Tail(s)) ELSE s

RECURSIVE RStrip(_)
RStrip(s) ==
    IF s # <<>> /\ s[Len(s)] \in Whitespace THEN RStrip(SubSeq(s, 1, Len(s) - 1))
    ELSE s

strip(s) == RStrip(LStrip(s))

\* value_str.replace("'", '"')
replace_quotes(s) == [i \in 1..Len(s) |-> IF s[i] = "'" THEN "\"" ELSE s[i]]

(***************************************************************************)
(* json.dumps with the default separators (", " and ": ").                 *)
(***************************************************************************)
RECURSIVE EscapeChars(_)
EscapeChars(s) ==
    IF s = <<>> THEN <<>>
    ELSE (IF Head(s) \in {"\"", "\\"} THEN <<"\\", Head(s)>> ELSE <<Head(s)>>)
            \o EscapeChars(Tail(s))

Quoted(s) == <<"\"">> \o EscapeChars(s) \o <<"\"">>

RECURSIVE json_dumps(_)
RECURSIVE DumpItems(_, _)
DumpItems(kv, isDict) ==
    IF kv = <<>> THEN <<>>
    ELSE (IF isDict THEN Quoted(Head(kv).k) \o <<":", " ">> ELSE <<>>)
            \o json_dumps(Head(kv).v)
            \o (IF Len(kv) > 1 THEN <<",", " ">> ELSE <<>>)
            \o DumpItems(Tail(kv), isDict)

json_dumps(v) ==
    CASE v.t = "none" -> <<"n", "u", "l", "l">>
      [] v.t = "bool" -> IF v.n = 1 THEN <<"t", "r", "u", "e">>
                         ELSE <<"f", "a", "l", "s", "e">>
      [] v.t = "int" -> IntChars(v.n)
      [] v.t = "float" -> FloatChars(v)
      [] v.t = "str" -> Quoted(v.s)
      [] v.t = "list" -> <<"[">> \o DumpItems(v.kv, FALSE) \o <<"]">>
      [] OTHER -> <<"{">> \o DumpItems(v.kv, TRUE) \o <<"}">>

\* str() of a scalar
py_str(v) ==
    CASE v.t = "none" -> <<"N", "o", "n", "e">>
      [] v.t = "bool" -> IF v.n = 1 THEN <<"T", "r", "u", "e">>
                         ELSE <<"F", "a", "l", "s", "e">>
      [] v.t = "int" -> IntChars(v.n)
      [] v.t = "float" -> FloatChars(v)
      [] OTHER -> v.s

(***************************************************************************)
(* json.loads: a parse result is [ok, v, i], i the position after the      *)
(* value.  Exponents, \u escapes and the NaN/Infinity literals are not     *)
(* modelled; the texts of the model contain none.                          *)
(***************************************************************************)
ParseFail == [ok |-> FALSE, v |-> PyNone, i |-> 0]

Parsed(v, i) == [ok |-> TRUE, v |-> v, i |-> i]

At(s, i) == IF i >= 1 /\ i <= Len(s) THEN s[i] ELSE ""

RECURSIVE SkipWs(_, _)
SkipWs(s, i) == IF At(s, i) \in Whitespace THEN SkipWs(s, i + 1) ELSE i

StartsWith(s, i, w) ==
    /\ i + Len(w) - 1 <= Len(s)
    /\ \A j \in 1..Len(w) : s[i + j - 1] = w[j]

\* s[i-1] is the opening quote; acc holds the characters read so far
RECURSIVE ScanString(_, _, _)
ScanString(s, i, acc) ==
    LET c == At(s, i) IN
    CASE c = "" -> ParseFail
      [] c = "\"" -> Parsed(PyStr(acc), i + 1)
      [] c = "\\" ->
            IF At(s, i + 1) \in {"\"", "\\", "/"}
            THEN ScanString(s, i + 2, Append(acc, s[i + 1]))
            ELSE ParseFail
      [] c \in {"\t", "\n", "\r"} -> ParseFail
      [] OTHER -> ScanString(s, i + 1, Append(acc, c))

RECURSIVE ScanDigits(_, _, _)
ScanDigits(s, i, n) ==
    IF IsDigit(At(s, i)) THEN ScanDigits(s, i + 1, 10 * n + DigitVal(s[i]))
    ELSE [n |-> n, i |-> i]

\* the fraction digits read, fr, after the integer part ip
AfterFrac(ip, fr, sign) == Parsed(PyFloat(sign * fr.n, fr.i - ip.i - 1), fr.i)

\* the integer part read, ip: a fraction follows or the number is an int
AfterInt(s, ip, sign) ==
    IF At(s, ip.i) = "." /\ IsDigit(At(s, ip.i + 1))
    THEN AfterFrac(ip, ScanDigits(s, ip.i + 1, ip.n), sign)
    ELSE Parsed(PyInt(sign * ip.n), ip.i)

\* -?(0|[1-9][0-9]*)(\.[0-9]+)?
Unsigned(s, j, sign) ==
    IF ~IsDigit(At(s, j)) THEN ParseFail
    ELSE AfterInt(s, IF At(s, j) = "0" THEN [n |-> 0, i |-> j + 1] ELSE ScanDigits(s, j, 0),
                  sign)

ParseNumber(s, i) == IF At(s, i) = "-" THEN Unsigned(s, i + 1, -1) ELSE Unsigned(s, i, 1)

\* dict[k] = v: a key seen before keeps its place and takes the new value
SetKey(kv, k, v) ==
    IF \E i \in 1..Len(kv) : kv[i].k = k
    THEN [i \in 1..Len(kv) |-> IF kv[i].k = k THEN Pair(k, v) ELSE kv[i]]
    ELSE Append(kv, Pair(k, v))

RECURSIVE ParseValue(_, _)
RECURSIVE ParseElements(_, _, _)
RECURSIVE ParseMembers(_, _, _)

\* after an element of an array: "]" ends it, "," brings the next element
ElementEnd(s, j, acc) ==
    CASE At(s, j) = "]" -> Parsed(PyList(acc), j + 1)
      [] At(s, j) = "," -> ParseElements(s, SkipWs(s, j + 1), acc)
      [] OTHER -> ParseFail

AfterElement(s, r, acc) ==
    IF r.ok THEN ElementEnd(s, SkipWs(s, r.i), Append(acc, Item(r.v))) ELSE ParseFail

\* i is at the first character of an element of an array
ParseElements(s, i, acc) == AfterElement(s, ParseValue(s, i), acc)

\* after a member of an object: "}" ends it, "," brings the next key
MemberEnd(s, j, acc) ==
    CASE At(s, j) = "}" -> Parsed(PyDict(acc), j + 1)
      [] At(s, j) = "," -> ParseMembers(s, SkipWs(s, j + 1), acc)
      [] OTHER -> ParseFail

AfterMember(s, key, r, acc) ==
    IF r.ok THEN MemberEnd(s, SkipWs(s, r.i), SetKey(acc, key, r.v)) ELSE ParseFail

\* c is at the colon that follows the key
AtColon(s, key, c, acc) ==
    IF At(s, c) = ":" THEN AfterMember(s, key, ParseValue(s, SkipWs(s, c + 1)), acc)
    ELSE ParseFail

AfterKey(s, k, acc) == IF k.ok THEN AtColon(s, k.v.s, SkipWs(s, k.i), acc) ELSE ParseFail

\* i is at the opening quote of a key of an object
ParseMembers(s, i, acc) ==
    IF At(s, i) = "\"" THEN AfterKey(s, ScanString(s, i + 1, <<>>), acc) ELSE ParseFail

\* j is at the first character after "{"
ObjectFrom(s, j) ==
    IF At(s, j) = "}" THEN Parsed(PyDict(<<>>), j + 1) ELSE ParseMembers(s, j, <<>>)

\* j is at the first character after "["
ArrayFrom(s, j) ==
    IF At(s, j) = "]" THEN Parsed(PyList(<<>>), j + 1) ELSE ParseElements(s, j, <<>>)

Literal(s, i, w, v) == IF StartsWith(s, i, w) THEN Parsed(v, i + Len(w)) ELSE ParseFail

ValueAt(s, i, c) ==
    CASE c = "\"" -> ScanString(s, i + 1, <<>>)
      [] c = "{" -> ObjectFrom(s, SkipWs(s, i + 1))
      [] c = "[" -> ArrayFrom(s, SkipWs(s, i + 1))
      [] c = "n" -> Literal(s, i, <<"n", "u", "l", "l">>, PyNone)
      [] c = "t" -> Literal(s, i, <<"t", "r", "u", "e">>, PyBool(TRUE))
      [] c = "f" -> Literal(s, i, <<"f", "a", "l", "s", "e">>, PyBool(FALSE))
      [] c = "-" \/ IsDigit(c) -> ParseNumber(s, i)
      [] OTHER -> ParseFail

ParseValue(s, i) == ValueAt(s, i, At(s, i))

\* the whole text must be one value, whitespace around it allowed
WholeText(s, r) == IF r.ok /\ SkipWs(s, r.i) = Len(s) + 1 THEN r ELSE ParseFail

\* json.loads(s): ok is FALSE where Python raises json.JSONDecodeError
json_loads(s) == WholeText(s, ParseValue(s, SkipWs(s, 1)))

(***************************************************************************)
(* Names.  Table names and field names are Python strs; the model keeps    *)
(* them as TLA+ strings and spells out the characters of every name a      *)
(* batch of the model may carry, so that str.strip and the regular         *)
(* expression of validate_table_name are computed on the characters.       *)
(***************************************************************************)
Chars ==
    ("unit_test_records" :> <<"u", "n", "i", "t", "_", "t", "e", "s", "t", "_", "r", "e", "c", "o", "r", "d", "s">>) @@
    ("sevenps_result_set" :> <<"s", "e", "v", "e", "n", "p", "s", "_", "r", "e", "s", "u", "l", "t", "_", "s", "e", "t">>) @@
    ("jira_issues" :> <<"j", "i", "r", "a", "_", "i", "s", "s", "u", "e", "s">>) @@
    ("manual_test_records" :> <<"m", "a", "n", "u", "a", "l", "_", "t", "e", "s", "t", "_", "r", "e", "c", "o", "r", "d", "s">>) @@
    ("unknown_table" :> <<"u", "n", "k", "n", "o", "w", "n", "_", "t", "a", "b", "l", "e">>) @@
    ("bad table" :> <<"b", "a", "d", " ", "t", "a", "b", "l", "e">>) @@
    ("unit_test_records\n" :> <<"u", "n", "i", "t", "_", "t", "e", "s", "t", "_", "r", "e", "c", "o", "r", "d", "s", "\n">>) @@
    ("artifact_url" :> <<"a", "r", "t", "i", "f", "a", "c", "t", "_", "u", "r", "l">>) @@
    ("artifact_name" :> <<"a", "r", "t", "i", "f", "a", "c", "t", "_", "n", "a", "m", "e">>) @@
    ("artifact_version" :> <<"a", "r", "t", "i", "f", "a", "c", "t", "_", "v", "e", "r", "s", "i", "o", "n">>) @@
    ("coverage" :> <<"c", "o", "v", "e", "r", "a", "g", "e">>) @@
    ("artifact_info" :> <<"a", "r", "t", "i", "f", "a", "c", "t", "_", "i", "n", "f", "o">>) @@
    ("id" :> <<"i", "d">>) @@
    ("created_date" :> <<"c", "r", "e", "a", "t", "e", "d", "_", "d", "a", "t", "e">>) @@
    ("test_request_id" :> <<"t", "e", "s", "t", "_", "r", "e", "q", "u", "e", "s", "t", "_", "i", "d">>) @@
    ("report_doc" :> <<"r", "e", "p", "o", "r", "t", "_", "d", "o", "c">>) @@
    ("status" :> <<"s", "t", "a", "t", "u", "s">>) @@
    ("message_blob" :> <<"m", "e", "s", "s", "a", "g", "e", "_", "b", "l", "o", "b">>) @@
    ("policy_reasons" :> <<"p", "o", "l", "i", "c", "y", "_", "r", "e", "a", "s", "o", "n", "s">>) @@
    ("traceability_doc" :> <<"t", "r", "a", "c", "e", "a", "b", "i", "l", "i", "t", "y", "_", "d", "o", "c">>) @@
    (" artifact_version" :> <<" ", "a", "r", "t", "i", "f", "a", "c", "t", "_", "v", "e", "r", "s", "i", "o", "n">>) @@
    ("id " :> <<"i", "d", " ">>) @@
    (" artifact_info " :> <<" ", "a", "r", "t", "i", "f", "a", "c", "t", "_", "i", "n", "f", "o", " ">>)

Name(cs) == CHOOSE k \in DOMAIN Chars : Chars[k] = cs

\* [A-Za-z0-9_]
WordChars ==
    {"a", "b", "c", "d", "e", "f", "g", "h", "i", "j", "k", "l", "m", "n", "o", "p", "q",
     "r", "s", "t", "u", "v", "w", "x", "y", "z", "A", "B", "C", "D", "E", "F", "G", "H",
     "I", "J", "K", "L", "M", "N", "O", "P", "Q", "R", "S", "T", "U", "V", "W", "X", "Y",
     "Z", "0", "1", "2", "3", "4", "5", "6", "7", "8", "9", "_"}

InList(x, l) == \E i \in 1..Len(l) : l[i] = x

\* a field of a record or of a statement: name and value
Field(k, v) == [k |-> k, v |-> v]

HasKey(rec, k) == \E i \in 1..Len(rec) : rec[i].k = k

Get(rec, k) == rec[CHOOSE i \in 1..Len(rec) : rec[i].k = k].v

Keys(rec) == {rec[i].k : i \in 1..Len(rec)}

(***************************************************************************)
(* DataInserter.__init__: the schema registry and the counters.            *)
(***************************************************************************)
table_configs ==
    [unit_test_records |->
        [unique_keys |-> <<"artifact_url", "artifact_name", "artifact_version">>,
         excluded_columns |-> <<"id", "created_date">>,
         json_columns |-> <<"artifact_info", "message_blob", "policy_reasons">>],
     sevenps_result_set |->
        [unique_keys |-> <<"test_request_id">>,
         excluded_columns |-> <<"id", "created_date">>,
         json_columns |-> <<"report_doc", "traceability_doc">>],
     jira_issues |->
        [unique_keys |-> <<"jira_key", "repo_url">>,
         excluded_columns |-> <<"id", "created_date">>,
         json_columns |-> <<"issue_data">>],
     manual_test_records |->
        [unique_keys |-> <<"jira_key", "artifact_url">>,
         excluded_columns |-> <<"id", "created_date">>,
         json_columns |-> <<"execution_result">>]]

Counters == {"total", "insertions", "updates", "skips", "failures"}

ZeroCounters == [c \in Counters |-> 0]

\* total_records, total_insertions, total_updates, total_skips, total_failures
InitTotals == ZeroCounters

InitTableStats == [t \in DOMAIN table_configs |-> ZeroCounters]

(***************************************************************************)
(* The value normalizer.                                                   *)
(***************************************************************************)
\* lines 41-46: the second attempt, after the quotes were replaced
SecondAttempt(value_str, second) == IF second.ok THEN second.v ELSE PyStr(value_str)

\* lines 36-40: the first attempt
FirstAttempt(value_str, first) ==
    IF first.ok THEN first.v
    ELSE SecondAttempt(value_str, json_loads(replace_quotes(value_str)))

\* the empty text handed to json.loads as any other text
NormalizeEmptyAsText(value_str) == FirstAttempt(value_str, json_loads(value_str))

\* lines 32-46, value_str being stripped
NormalizeStripped(value_str) ==
    IF value_str = <<>> THEN PyNone ELSE FirstAttempt(value_str, json_loads(value_str))

normalize_json_value(value_str) == NormalizeStripped(strip(value_str))

\* a str left as it is: the comparison of serialized texts of the earlier revisions
EnsureNotParsed(value) == value

ensure_parsed_json(value) ==
    CASE value.t \in {"dict", "list"} -> value
      [] value.t = "str" -> normalize_json_value(value.s)
      [] OTHER -> value

\* the None branch of serialize_field left out: str(None)
SerializeFieldNoneAsStr(value) ==
    IF value.t \in {"dict", "list"} THEN json_dumps(value) ELSE py_str(value)

\* the text serialize_field returns
serialize_field(value) ==
    CASE value.t \in {"dict", "list"} -> json_dumps(value)
      [] value.t = "none" -> <<>>
      [] OTHER -> py_str(value)

\* {k.strip(): v for k, v in record.items()}
RECURSIVE CleanInto(_, _)
CleanInto(rec, acc) ==
    IF rec = <<>> THEN acc
    ELSE LET k == Name(strip(Chars[Head(rec).k]))
         IN  CleanInto(Tail(rec),
                IF HasKey(acc, k)
                THEN [i \in 1..Len(acc) |-> IF acc[i].k = k THEN Field(k, Head(rec).v) ELSE acc[i]]
                ELSE Append(acc, Field(k, Head(rec).v)))

\* the keys of the record taken as they are
CleanKeysNotTrimmed(record) == record

clean_record_keys(record) == CleanInto(record, <<>>)

\* re.match(r'^[A-Za-z0-9_]+$', table_name): $ also matches before a final newline
validate_table_name(table_name) ==
    LET cs == Chars[table_name]
        body == IF cs # <<>> /\ cs[Len(cs)] = "\n" THEN SubSeq(cs, 1, Len(cs) - 1) ELSE cs
    IN  body # <<>> /\ \A i \in 1..Len(body) : body[i] \in WordChars

(***************************************************************************)
(* The differ.  existing_record is the row the lookup returned, a function *)
(* from the selected columns to values; .get(column, "") gives the empty   *)
(* str for a column that was not selected.                                 *)
(***************************************************************************)
\* .get(column) without the default: None for a column the row does not have
ExistingGetNone(existing_record, column) ==
    IF column \in DOMAIN existing_record THEN existing_record[column] ELSE PyNone

ExistingGet(existing_record, column) ==
    IF column \in DOMAIN existing_record THEN existing_record[column] ELSE PyStr(<<>>)

\* lines 155-173: the comparison records_differ makes for one field
ColumnDiffers(existing_record, column, new_value, json_columns) ==
    LET serialized_new_value == PyStr(serialize_field(new_value))
        existing_value == ExistingGet(existing_record, column)
    IN  IF InList(column, json_columns)
        THEN ~PyEq(ensure_parsed_json(existing_value), ensure_parsed_json(serialized_new_value))
        ELSE ~PyEq(existing_value, serialized_new_value)

records_differ(existing_record, new_record, json_columns, excluded_columns) ==
    \E i \in 1..Len(new_record) :
        /\ ~InList(new_record[i].k, excluded_columns)
        /\ ColumnDiffers(existing_record, new_record[i].k, new_record[i].v, json_columns)

(***************************************************************************)
(* The storage collaborator (src.database.insightsdb, not part of the      *)
(* sources): a table is a sequence of rows, a row gives every column a     *)
(* value, None for a column never written.  It keeps and returns values as *)
(* written; a WHERE clause compares with =, which no NULL satisfies.       *)
(***************************************************************************)
Columns ==
    {"artifact_url", "artifact_name", "artifact_version", "coverage", "artifact_info",
     "id", "created_date", "test_request_id", "report_doc", "status",
     "message_blob", "policy_reasons", "traceability_doc"}

NullRow == [c \in Columns |-> PyNone]

SqlEq(a, b) == a.t # "none" /\ b.t # "none" /\ PyEq(a, b)

RowMatches(row, where) == \A i \in 1..Len(where) : SqlEq(row[where[i].k], where[i].v)

\* SELECT ... WHERE: the positions of the rows that match
RECURSIVE MatchingFrom(_, _, _)
MatchingFrom(rows, where, i) ==
    IF i > Len(rows) THEN <<>>
    ELSE (IF RowMatches(rows[i], where) THEN <<i>> ELSE <<>>)
            \o MatchingFrom(rows, where, i + 1)

db_select(rows, where) == MatchingFrom(rows, where, 1)

\* INSERT INTO table (fields) VALUES (values)
db_insert(rows, fields) ==
    Append(rows, [c \in Columns |-> IF HasKey(fields, c) THEN Get(fields, c) ELSE PyNone])

\* UPDATE table SET fields WHERE where
db_update(rows, fields, where) ==
    [i \in 1..Len(rows) |->
        IF RowMatches(rows[i], where)
        THEN [c \in Columns |-> IF HasKey(fields, c) THEN Get(fields, c) ELSE rows[i][c]]
        ELSE rows[i]]

\* one statement handed to the storage collaborator, and whether it succeeded
Call(op, columns, fields, where, ok) ==
    [op |-> op, columns |-> columns, fields |-> fields, where |-> where, ok |-> ok]

(***************************************************************************)
(* The reconciler.  S is the state of the DataInserter and of the store,   *)
(* [db, totals, stats]; the result adds the outcome of the call, the       *)
(* statements it issued and the row the lookup found.                      *)
(***************************************************************************)
Bump(counters, c) == [counters EXCEPT ![c] = @ + 1]

\* self.total_X += 1; self.table_stats[table_name][X] += 1
Count(S, table_name, c) ==
    [S EXCEPT !.totals = Bump(@, c), !.stats[table_name] = Bump(@, c)]

Result(S, outcome, calls, found, row) ==
    [db |-> S.db, totals |-> S.totals, stats |-> S.stats,
     outcome |-> outcome, calls |-> calls, found |-> found, row |-> row]

\* lines 206-213: the dict comprehension raises KeyError
UniqueKeyMissing(cleaned_record, unique_keys) ==
    \E i \in 1..Len(unique_keys) : ~HasKey(cleaned_record, unique_keys[i])

\* the record with a missing unique key counted as skipped, like an unconfigured table
OnMissingUniqueKeyAsSkip(S, table_name) ==
    Result(Count(S, table_name, "skips"), "Skipped", <<>>, FALSE, NullRow)

\* the record without its unique key written as a row of its own
OnMissingUniqueKeyWritesRow(S, table_name) ==
    Result(Count([S EXCEPT !.db[table_name] = Append(@, NullRow)], table_name, "failures"),
           "Failed", <<>>, FALSE, NullRow)

\* lines 209-213: except KeyError
OnMissingUniqueKey(S, table_name) ==
    Result(Count(S, table_name, "failures"), "Failed", <<>>, FALSE, NullRow)

\* the update counted before the statement is known to have succeeded
OnStorageErrorCountsUpdate(S, table_name, calls, found, row) ==
    Result(Count(Count(S, table_name, "updates"), table_name, "failures"), "Failed",
           calls, found, row)

\* lines 229-233, 277-280, 313-316: except Exception around a statement
OnStorageError(S, table_name, calls, found, row) ==
    Result(Count(S, table_name, "failures"), "Failed", calls, found, row)

\* lines 194-199: no configuration for the table
OnNoConfig(S, table_name) ==
    Result(Count(S, table_name, "skips"), "Skipped", <<>>, FALSE, NullRow)

\* line 192 for a table_name that table_stats has no entry for: KeyError leaves
\* insert_or_update_record, after line 191 has counted the record
OnNoTableStats(S) == Result(S, "KeyError", <<>>, FALSE, NullRow)

\* every column compared as text, JSON columns too
RECURSIVE UpdateFieldsTextual(_, _, _, _)
UpdateFieldsTextual(existing_record, cleaned_record, json_columns, excluded_columns) ==
    IF cleaned_record = <<>> THEN <<>>
    ELSE (IF ~InList(Head(cleaned_record).k, excluded_columns)
             /\ ~PyEq(ExistingGet(existing_record, Head(cleaned_record).k),
                      PyStr(serialize_field(Head(cleaned_record).v)))
          THEN <<Field(Head(cleaned_record).k, PyStr(serialize_field(Head(cleaned_record).v)))>>
          ELSE <<>>)
            \o UpdateFieldsTextual(existing_record, Tail(cleaned_record), json_columns,
                                   excluded_columns)

\* every column of the record rewritten once the record differs
RECURSIVE UpdateFieldsAll(_, _, _, _)
UpdateFieldsAll(existing_record, cleaned_record, json_columns, excluded_columns) ==
    IF cleaned_record = <<>> THEN <<>>
    ELSE (IF ~InList(Head(cleaned_record).k, excluded_columns)
          THEN <<Field(Head(cleaned_record).k, PyStr(serialize_field(Head(cleaned_record).v)))>>
          ELSE <<>>)
            \o UpdateFieldsAll(existing_record, Tail(cleaned_record), json_columns,
                               excluded_columns)

\* the differing columns, and artifact_info emptied when the record does not name it
UpdateFieldsAndAbsent(existing_record, cleaned_record, json_columns, excluded_columns) ==
    UpdateFieldsTextual(existing_record, cleaned_record, json_columns, excluded_columns)
        \o (IF HasKey(cleaned_record, "artifact_info") THEN <<>>
            ELSE <<Field("artifact_info", PyStr(<<>>))>>)

\* the SET list with the value of the record as it is for a column that is no JSON
\* column, as the INSERT writes it
RECURSIVE UpdateFieldsRaw(_, _, _, _)
UpdateFieldsRaw(existing_record, cleaned_record, json_columns, excluded_columns) ==
    IF cleaned_record = <<>> THEN <<>>
    ELSE (IF ~InList(Head(cleaned_record).k, excluded_columns)
             /\ ColumnDiffers(existing_record, Head(cleaned_record).k,
                              Head(cleaned_record).v, json_columns)
          THEN IF InList(Head(cleaned_record).k, json_columns)
               THEN <<Field(Head(cleaned_record).k,
                            PyStr(serialize_field(Head(cleaned_record).v)))>>
               ELSE <<Head(cleaned_record)>>
          ELSE <<>>)
            \o UpdateFieldsRaw(existing_record, Tail(cleaned_record), json_columns,
                               excluded_columns)

\* the SET list built from the JSON columns only
RECURSIVE UpdateFieldsJsonOnly(_, _, _, _)
UpdateFieldsJsonOnly(existing_record, cleaned_record, json_columns, excluded_columns) ==
    IF cleaned_record = <<>> THEN <<>>
    ELSE (IF ~InList(Head(cleaned_record).k, excluded_columns)
             /\ InList(Head(cleaned_record).k, json_columns)
             /\ ColumnDiffers(existing_record, Head(cleaned_record).k,
                              Head(cleaned_record).v, json_columns)
          THEN <<Field(Head(cleaned_record).k,
                       PyStr(serialize_field(Head(cleaned_record).v)))>>
          ELSE <<>>)
            \o UpdateFieldsJsonOnly(existing_record, Tail(cleaned_record), json_columns,
                                    excluded_columns)

\* lines 243-266: the SET list of the UPDATE, in the order of the record
RECURSIVE UpdateFields(_, _, _, _)
UpdateFields(existing_record, cleaned_record, json_columns, excluded_columns) ==
    IF cleaned_record = <<>> THEN <<>>
    ELSE LET column == Head(cleaned_record).k
             serialized_value == PyStr(serialize_field(Head(cleaned_record).v))
             existing_serialized == ExistingGet(existing_record, column)
             changed ==
                IF InList(column, json_columns)
                THEN ~PyEq(ensure_parsed_json(existing_serialized),
                           ensure_parsed_json(serialized_value))
                ELSE ~PyEq(existing_serialized, serialized_value)
         IN  (IF ~InList(column, excluded_columns) /\ changed
              THEN <<Field(column, serialized_value)>> ELSE <<>>)
                \o UpdateFields(existing_record, Tail(cleaned_record), json_columns,
                                excluded_columns)

\* every column written as its serialized text
RECURSIVE InsertFieldsSerialized(_, _, _)
InsertFieldsSerialized(cleaned_record, json_columns, excluded_columns) ==
    IF cleaned_record = <<>> THEN <<>>
    ELSE (IF InList(Head(cleaned_record).k, excluded_columns) THEN <<>>
          ELSE <<Field(Head(cleaned_record).k, PyStr(serialize_field(Head(cleaned_record).v)))>>)
            \o InsertFieldsSerialized(Tail(cleaned_record), json_columns, excluded_columns)

\* the columns of the INSERT in the reverse of the order of the record
RECURSIVE InsertFieldsReversed(_, _, _)
InsertFieldsReversed(cleaned_record, json_columns, excluded_columns) ==
    IF cleaned_record = <<>> THEN <<>>
    ELSE InsertFieldsReversed(Tail(cleaned_record), json_columns, excluded_columns)
            \o (IF InList(Head(cleaned_record).k, excluded_columns) THEN <<>>
                ELSE IF InList(Head(cleaned_record).k, json_columns)
                     THEN <<Field(Head(cleaned_record).k,
                                  PyStr(serialize_field(Head(cleaned_record).v)))>>
                     ELSE <<Head(cleaned_record)>>)

\* lines 292-304: the columns and values of the INSERT, in the order of the record
RECURSIVE InsertFields(_, _, _)
InsertFields(cleaned_record, json_columns, excluded_columns) ==
    IF cleaned_record = <<>> THEN <<>>
    ELSE LET column == Head(cleaned_record).k
             value == Head(cleaned_record).v
         IN  (IF InList(column, excluded_columns) THEN <<>>
              ELSE IF InList(column, json_columns)
                   THEN <<Field(column, PyStr(serialize_field(value)))>>
                   ELSE <<Field(column, value)>>)
                \o InsertFields(Tail(cleaned_record), json_columns, excluded_columns)

\* the lookup asking for every field of the record, excluded ones too
SelectColumnsWithExcluded(cleaned_record, unique_keys, excluded_columns) ==
    Keys(cleaned_record) \cup {unique_keys[i] : i \in 1..Len(unique_keys)}

\* lines 220-221
SelectColumns(cleaned_record, unique_keys, excluded_columns) ==
    {k \in Keys(cleaned_record) : ~InList(k, excluded_columns)}
        \cup {unique_keys[i] : i \in 1..Len(unique_keys)}

\* an existing row rewritten whether it differs or not
OnExistingAlwaysUpdates(S, table_name, cleaned_record, where, select, row, fail) ==
    LET config == table_configs[table_name]
        update_fields == UpdateFieldsAll(<<>>, cleaned_record, config.json_columns,
                                         config.excluded_columns)
        update == Call("UPDATE", {}, update_fields, where, fail # "write")
        written == [S EXCEPT !.db[table_name] = db_update(@, update_fields, where)]
    IN  IF update.ok
        THEN Result(Count(written, table_name, "updates"), "Updated",
                    <<select, update>>, TRUE, row)
        ELSE OnStorageError(S, table_name, <<select, update>>, TRUE, row)

\* lines 235-289: an existing row was found
OnExisting(S, table_name, cleaned_record, where, select, row, fail) ==
    LET config == table_configs[table_name]
        select_columns == select.columns
        existing_record == [c \in select_columns |-> row[c]]
        update_fields == UpdateFields(existing_record, cleaned_record,
                                      config.json_columns, config.excluded_columns)
        update == Call("UPDATE", {}, update_fields, where, fail # "write")
        written == [S EXCEPT !.db[table_name] = db_update(@, update_fields, where)]
    IN  IF records_differ(existing_record, cleaned_record, config.json_columns,
                          config.excluded_columns)
        THEN IF update_fields # <<>>
             THEN IF update.ok
                  THEN Result(Count(written, table_name, "updates"), "Updated",
                              <<select, update>>, TRUE, row)
                  ELSE OnStorageError(S, table_name, <<select, update>>, TRUE, row)
             ELSE Result(Count(S, table_name, "skips"), "Skipped", <<select>>, TRUE, row)
        ELSE Result(Count(S, table_name, "skips"), "Skipped", <<select>>, TRUE, row)

\* the insertion counted when the INSERT is issued, whether the store refuses it or not
OnAbsentCountsIssued(S, table_name, cleaned_record, select, fail) ==
    LET config == table_configs[table_name]
        insert_fields == InsertFields(cleaned_record, config.json_columns,
                                      config.excluded_columns)
        insert == Call("INSERT", {}, insert_fields, <<>>, fail # "write")
        written == [S EXCEPT !.db[table_name] = db_insert(@, insert_fields)]
    IN  IF insert.ok
        THEN Result(Count(written, table_name, "insertions"), "Inserted",
                    <<select, insert>>, FALSE, NullRow)
        ELSE OnStorageError(Count(S, table_name, "insertions"), table_name,
                            <<select, insert>>, FALSE, NullRow)

\* an INSERT the store refused issued a second time
OnAbsentRetries(S, table_name, cleaned_record, select, fail) ==
    LET config == table_configs[table_name]
        insert_fields == InsertFields(cleaned_record, config.json_columns,
                                      config.excluded_columns)
        insert == Call("INSERT", {}, insert_fields, <<>>, fail # "write")
        again == Call("INSERT", {}, insert_fields, <<>>, TRUE)
        written == [S EXCEPT !.db[table_name] = db_insert(@, insert_fields)]
    IN  IF insert.ok
        THEN Result(Count(written, table_name, "insertions"), "Inserted",
                    <<select, insert>>, FALSE, NullRow)
        ELSE Result(Count(written, table_name, "insertions"), "Inserted",
                    <<select, insert, again>>, FALSE, NullRow)

\* lines 290-316: no existing row
OnAbsent(S, table_name, cleaned_record, select, fail) ==
    LET config == table_configs[table_name]
        insert_fields == InsertFields(cleaned_record, config.json_columns,
                                      config.excluded_columns)
        insert == Call("INSERT", {}, insert_fields, <<>>, fail # "write")
        written == [S EXCEPT !.db[table_name] = db_insert(@, insert_fields)]
    IN  IF insert.ok
        THEN Result(Count(written, table_name, "insertions"), "Inserted",
                    <<select, insert>>, FALSE, NullRow)
        ELSE OnStorageError(S, table_name, <<select, insert>>, FALSE, NullRow)

\* a lookup whose failure is taken for "no row"
OnLookupInsertsOnError(S, table_name, cleaned_record, fail, pick) ==
    LET config == table_configs[table_name]
        unique_keys == config.unique_keys
        where == [i \in 1..Len(unique_keys) |->
                    Field(unique_keys[i], Get(cleaned_record, unique_keys[i]))]
        select == Call("SELECT",
                       SelectColumns(cleaned_record, unique_keys, config.excluded_columns),
                       <<>>, where, fail # "select")
        result == db_select(S.db[table_name], where)
        row == S.db[table_name][result[((pick - 1) % Len(result)) + 1]]
    IN  IF select.ok /\ result # <<>>
        THEN OnExisting(S, table_name, cleaned_record, where, select, row, fail)
        ELSE OnAbsent(S, table_name, cleaned_record, select, fail)

\* statements without a WHERE clause
WhereClauseEmpty(cleaned_record, unique_keys) == <<>>

\* lines 206-217: key = %s for every unique key, with the value of the record
WhereClause(cleaned_record, unique_keys) ==
    [i \in 1..Len(unique_keys) |-> Field(unique_keys[i], Get(cleaned_record, unique_keys[i]))]

\* no lookup: every record is inserted
OnLookupAlwaysInserts(S, table_name, cleaned_record, fail, pick) ==
    LET config == table_configs[table_name]
        select == Call("SELECT",
                       SelectColumns(cleaned_record, config.unique_keys, config.excluded_columns),
                       <<>>, WhereClause(cleaned_record, config.unique_keys), fail # "select")
    IN  IF ~select.ok THEN OnStorageError(S, table_name, <<select>>, FALSE, NullRow)
        ELSE OnAbsent(S, table_name, cleaned_record, select, fail)

\* lines 215-233: the lookup; fail says which statement of this call the store
\* refuses ("select", "write" or "none"), pick which matching row LIMIT 1 returns
OnLookup(S, table_name, cleaned_record, fail, pick) ==
    LET config == table_configs[table_name]
        unique_keys == config.unique_keys
        where == WhereClause(cleaned_record, unique_keys)
        select == Call("SELECT",
                       SelectColumns(cleaned_record, unique_keys, config.excluded_columns),
                       <<>>, where, fail # "select")
        result == db_select(S.db[table_name], where)
        row == S.db[table_name][result[((pick - 1) % Len(result)) + 1]]
    IN  IF ~select.ok THEN OnStorageError(S, table_name, <<select>>, FALSE, NullRow)
        ELSE IF result # <<>>
             THEN OnExisting(S, table_name, cleaned_record, where, select, row, fail)
             ELSE OnAbsent(S, table_name, cleaned_record, select, fail)

\* lines 177-316
insert_or_update_record(table_name, record, S, fail, pick) ==
    LET cleaned_record == clean_record_keys(record)
        S1 == [S EXCEPT !.totals = Bump(@, "total")]
        S2 == [S1 EXCEPT !.stats[table_name] = Bump(@, "total")]
    IN  IF ~validate_table_name(table_name)
        THEN Result(S, "Rejected", <<>>, FALSE, NullRow)
        ELSE IF table_name \notin DOMAIN S.stats THEN OnNoTableStats(S1)
        ELSE IF table_name \notin DOMAIN table_configs THEN OnNoConfig(S2, table_name)
        ELSE IF UniqueKeyMissing(cleaned_record, table_configs[table_name].unique_keys)
             THEN OnMissingUniqueKey(S2, table_name)
        ELSE OnLookup(S2, table_name, cleaned_record, fail, pick)

(***************************************************************************)
(* The earlier revisions of the engine.  sample.py and v2_script.py are    *)
(* one handler: no validation of the table name, no trimming of the keys,  *)
(* SELECT *, a differ that looks at the JSON columns only and an UPDATE    *)
(* that rewrites every non-excluded field; v2_script.py adds the counters  *)
(* total_records, total_insertions and total_updates.  The table           *)
(* configurations are those of ultimate.py in every revision.              *)
(***************************************************************************)
Revisions == {"sample.py", "v2_script.py", "update_update.py", "ultimate.py"}

\* v2_script.py lines 80, 142, 165: the counters sample.py does not have
EarlyCount(revision, S, c) ==
    IF revision = "v2_script.py" THEN [S EXCEPT !.totals = Bump(@, c)] ELSE S

\* new_record.get(column, "")
RecordGet(record, column) ==
    IF HasKey(record, column) THEN Get(record, column) ELSE PyStr(<<>>)

\* v2_script.py lines 56-71 (sample.py lines 61-76)
early_records_differ(existing_record, new_record, json_columns) ==
    \E i \in 1..Len(json_columns) :
        ~PyEq(ExistingGet(existing_record, json_columns[i]),
              PyStr(serialize_field(RecordGet(new_record, json_columns[i]))))

\* v2_script.py lines 118-129 (sample.py lines 117-128): the SET list
RECURSIVE EarlyUpdateFields(_, _, _)
EarlyUpdateFields(record, json_columns, excluded_columns) ==
    IF record = <<>> THEN <<>>
    ELSE (IF InList(Head(record).k, excluded_columns) THEN <<>>
          ELSE IF InList(Head(record).k, json_columns)
               THEN <<Field(Head(record).k, PyStr(serialize_field(Head(record).v)))>>
               ELSE <<Head(record)>>)
            \o EarlyUpdateFields(Tail(record), json_columns, excluded_columns)

\* v2_script.py lines 145-156 (sample.py lines 142-155): the columns of the INSERT
RECURSIVE EarlyInsertFields(_, _, _)
EarlyInsertFields(record, json_columns, excluded_columns) ==
    IF record = <<>> THEN <<>>
    ELSE (IF InList(Head(record).k, excluded_columns) THEN <<>>
          ELSE IF InList(Head(record).k, json_columns)
               THEN <<Field(Head(record).k, PyStr(serialize_field(Head(record).v)))>>
               ELSE <<Head(record)>>)
            \o EarlyInsertFields(Tail(record), json_columns, excluded_columns)

\* v2_script.py lines 111-141 (sample.py lines 113-140): a row was found
EarlyOnExisting(revision, S, table_name, record, where, select, row, fail) ==
    LET config == table_configs[table_name]
        update_fields == EarlyUpdateFields(record, config.json_columns,
                                           config.excluded_columns)
        update == Call("UPDATE", {}, update_fields, where, fail # "write")
        written == [S EXCEPT !.db[table_name] = db_update(@, update_fields, where)]
    IN  IF early_records_differ(row, record, config.json_columns)
        THEN IF update.ok
             THEN Result(EarlyCount(revision, written, "updates"), "Updated",
                         <<select, update>>, TRUE, row)
             ELSE Result(S, "Failed", <<select, update>>, TRUE, row)
        ELSE Result(S, "Skipped", <<select>>, TRUE, row)

\* v2_script.py lines 142-166 (sample.py lines 141-162): no row was found
EarlyOnAbsent(revision, S, table_name, record, select, fail) ==
    LET config == table_configs[table_name]
        insert_fields == EarlyInsertFields(record, config.json_columns,
                                           config.excluded_columns)
        insert == Call("INSERT", {}, insert_fields, <<>>, fail # "write")
        written == [S EXCEPT !.db[table_name] = db_insert(@, insert_fields)]
    IN  IF insert.ok
        THEN Result(EarlyCount(revision, written, "insertions"), "Inserted",
                    <<select, insert>>, FALSE, NullRow)
        ELSE Result(S, "Failed", <<select, insert>>, FALSE, NullRow)

\* v2_script.py lines 98-109 (sample.py lines 101-111): SELECT * ... LIMIT 1 asks
\* for every column of the table
EarlyOnLookup(revision, S, table_name, record, fail, pick) ==
    LET unique_keys == table_configs[table_name].unique_keys
        where == [i \in 1..Len(unique_keys) |->
                    Field(unique_keys[i], Get(record, unique_keys[i]))]
        select == Call("SELECT", Columns, <<>>, where, fail # "select")
        result == db_select(S.db[table_name], where)
        row == S.db[table_name][result[((pick - 1) % Len(result)) + 1]]
    IN  IF ~select.ok THEN Result(S, "Failed", <<select>>, FALSE, NullRow)
        ELSE IF result # <<>>
             THEN EarlyOnExisting(revision, S, table_name, record, where, select, row, fail)
             ELSE EarlyOnAbsent(revision, S, table_name, record, select, fail)

\* v2_script.py lines 73-166 (sample.py lines 78-162)
early_insert_or_update_record(revision, table_name, record, S, fail, pick) ==
    LET S1 == EarlyCount(revision, S, "total")
    IN  IF table_name \notin DOMAIN table_configs
        THEN Result(S1, "Skipped", <<>>, FALSE, NullRow)
        ELSE IF UniqueKeyMissing(record, table_configs[table_name].unique_keys)
             THEN Result(S1, "Failed", <<>>, FALSE, NullRow)
        ELSE EarlyOnLookup(revision, S1, table_name, record, fail, pick)

(***************************************************************************)
(* update_update.py is ultimate.py with every column compared as text, in  *)
(* the differ and in the loop that builds the SET list; the rest of its    *)
(* handler is the code of ultimate.py line for line.                       *)
(***************************************************************************)
\* update_update.py lines 129-150
textual_records_differ(existing_record, new_record, json_columns, excluded_columns) ==
    \E i \in 1..Len(new_record) :
        /\ ~InList(new_record[i].k, excluded_columns)
        /\ ~PyEq(ExistingGet(existing_record, new_record[i].k),
                 PyStr(serialize_field(new_record[i].v)))

\* update_update.py lines 234-244
RECURSIVE TextualUpdateFields(_, _, _)
TextualUpdateFields(existing_record, cleaned_record, excluded_columns) ==
    IF cleaned_record = <<>> THEN <<>>
    ELSE (IF ~InList(Head(cleaned_record).k, excluded_columns)
             /\ ~PyEq(ExistingGet(existing_record, Head(cleaned_record).k),
                      PyStr(serialize_field(Head(cleaned_record).v)))
          THEN <<Field(Head(cleaned_record).k, PyStr(serialize_field(Head(cleaned_record).v)))>>
          ELSE <<>>)
            \o TextualUpdateFields(existing_record, Tail(cleaned_record), excluded_columns)

\* update_update.py lines 227-268
TextualOnExisting(S, table_name, cleaned_record, where, select, row, fail) ==
    LET config == table_configs[table_name]
        existing_record == [c \in select.columns |-> row[c]]
        update_fields == TextualUpdateFields(existing_record, cleaned_record,
                                             config.excluded_columns)
        update == Call("UPDATE", {}, update_fields, where, fail # "write")
        written == [S EXCEPT !.db[table_name] = db_update(@, update_fields, where)]
    IN  IF textual_records_differ(existing_record, cleaned_record, config.json_columns,
                                  config.excluded_columns)
           /\ update_fields # <<>>
        THEN IF update.ok
             THEN Result(Count(written, table_name, "updates"), "Updated",
                         <<select, update>>, TRUE, row)
             ELSE OnStorageError(S, table_name, <<select, update>>, TRUE, row)
        ELSE Result(Count(S, table_name, "skips"), "Skipped", <<select>>, TRUE, row)

\* update_update.py lines 201-225
TextualOnLookup(S, table_name, cleaned_record, fail, pick) ==
    LET config == table_configs[table_name]
        unique_keys == config.unique_keys
        where == [i \in 1..Len(unique_keys) |->
                    Field(unique_keys[i], Get(cleaned_record, unique_keys[i]))]
        select == Call("SELECT",
                       SelectColumns(cleaned_record, unique_keys, config.excluded_columns),
                       <<>>, where, fail # "select")
        result == db_select(S.db[table_name], where)
        row == S.db[table_name][result[((pick - 1) % Len(result)) + 1]]
    IN  IF ~select.ok THEN OnStorageError(S, table_name, <<select>>, FALSE, NullRow)
        ELSE IF result # <<>>
             THEN TextualOnExisting(S, table_name, cleaned_record, where, select, row, fail)
             ELSE OnAbsent(S, table_name, cleaned_record, select, fail)

\* update_update.py lines 153-295
textual_insert_or_update_record(table_name, record, S, fail, pick) ==
    LET cleaned_record == clean_record_keys(record)
        S1 == [S EXCEPT !.totals = Bump(@, "total")]
        S2 == [S1 EXCEPT !.stats[table_name] = Bump(@, "total")]
    IN  IF ~validate_table_name(table_name)
        THEN Result(S, "Rejected", <<>>, FALSE, NullRow)
        ELSE IF table_name \notin DOMAIN S.stats THEN OnNoTableStats(S1)
        ELSE IF table_name \notin DOMAIN table_configs THEN OnNoConfig(S2, table_name)
        ELSE IF UniqueKeyMissing(cleaned_record, table_configs[table_name].unique_keys)
             THEN OnMissingUniqueKey(S2, table_name)
        ELSE TextualOnLookup(S2, table_name, cleaned_record, fail, pick)

\* the handler of a revision
RevisionHandler(revision, table_name, record, S, fail, pick) ==
    CASE revision = "ultimate.py" ->
            insert_or_update_record(table_name, record, S, fail, pick)
      [] revision = "update_update.py" ->
            textual_insert_or_update_record(table_name, record, S, fail, pick)
      [] OTHER ->
            early_insert_or_update_record(revision, table_name, record, S, fail, pick)

(***************************************************************************)
(* The batch driver.  data is the argument of insert_data: the entries of  *)
(* the mapping in order, each a table name with a list of items (isList)   *)
(* or some other value, each item a record (isDict) or some other value.   *)
(* (ti, ri) is the position of the two loops; ncall counts the calls of    *)
(* insert_data on this DataInserter; hist lists the calls of               *)
(* insert_or_update_record made so far, each with its outcome, the         *)
(* statements it issued, the row its lookup found, and the store and the   *)
(* counters as they were before the call.  revision is the file whose      *)
(* DataInserter runs.  args holds the arguments of a function that is      *)
(* called on its own, returned the function and the value it returned.     *)
(***************************************************************************)
VARIABLES revision, data, pc, ti, ri, ncall, db, totals, table_stats, hist, args, returned

vars == <<revision, data, pc, ti, ri, ncall, db, totals, table_stats, hist, args, returned>>

\* number of items a batch of the model holds at most
MaxBatchLen == 3

\* number of calls of insert_data on one DataInserter
MaxCalls == 2

\* number of items a batch that is reconciled again holds at most
MaxReplayLen == 2

\* number of items a batch handed to the four revisions holds at most
MaxRevisionLen == 2

FlatItem(table, kind, fields) == [table |-> table, kind |-> kind, fields |-> fields]

\* the items of one table are together (a mapping has one entry for a key), and a
\* value that is no list is the whole entry
Grouped(f) ==
    /\ \A i, k \in 1..Len(f) : i < k /\ f[i].table = f[k].table =>
            \A j \in i..k : f[j].table = f[i].table
    /\ \A i, j \in 1..Len(f) : i # j /\ f[i].kind = "nonlist" => f[j].table # f[i].table

\* the positions of f at which the items of a table begin
Starts(f) == {i \in 1..Len(f) : i = 1 \/ f[i - 1].table # f[i].table}

\* the entry of the mapping whose items begin at position i of f
Entry(f, i) ==
    [table |-> f[i].table,
     isList |-> f[i].kind # "nonlist",
     records |-> IF f[i].kind = "nonlist" THEN <<>>
                 ELSE [j \in 1..Cardinality({k \in 1..Len(f) : f[k].table = f[i].table}) |->
                          [isDict |-> f[i + j - 1].kind = "dict",
                           fields |-> f[i + j - 1].fields]]]

\* the mapping a grouped sequence of items stands for
ToData(f) ==
    [e \in 1..Cardinality(Starts(f)) |->
        Entry(f, CHOOSE i \in Starts(f) : Cardinality({j \in Starts(f) : j < i}) = e - 1)]

\* the batches of at most n items drawn from the items U
Batches(U, n) ==
    {ToData(f) : f \in {g \in UNION {[1..m -> U] : m \in 1..n} : Grouped(g)}}

Text_u == <<"u">>
Text_n == <<"n">>
Text_v1 == <<"v", "1">>
Text_08 == <<"0", ".", "8">>
Text_09 == <<"0", ".", "9">>

Rec08 ==
    <<Field("artifact_url", PyStr(Text_u)), Field("artifact_name", PyStr(Text_n)),
      Field("artifact_version", PyStr(Text_v1)), Field("coverage", PyStr(Text_08))>>

Rec09 ==
    <<Field("artifact_url", PyStr(Text_u)), Field("artifact_name", PyStr(Text_n)),
      Field("artifact_version", PyStr(Text_v1)), Field("coverage", PyStr(Text_09))>>

RecNoVersion ==
    <<Field("artifact_url", PyStr(Text_u)), Field("artifact_name", PyStr(Text_n)),
      Field("coverage", PyStr(Text_08))>>

RecNoName ==
    <<Field("artifact_url", PyStr(Text_u)), Field("artifact_version", PyStr(Text_v1))>>

RecNoUrl ==
    <<Field("coverage", PyStr(Text_09)), Field("artifact_name", PyStr(Text_n)),
      Field("artifact_version", PyStr(Text_v1))>>

\* the items of the batches of Spec
Items ==
    {FlatItem("unit_test_records", "dict", Rec08),
     FlatItem("unit_test_records", "dict", Rec09),
     FlatItem("unit_test_records", "dict", RecNoVersion),
     FlatItem("unit_test_records", "dict", RecNoName),
     FlatItem("unit_test_records", "dict", RecNoUrl),
     FlatItem("unit_test_records", "nondict", <<>>),
     FlatItem("unknown_table", "dict", Rec08),
     FlatItem("bad table", "dict", Rec08),
     FlatItem("unit_test_records\n", "dict", Rec08),
     FlatItem("jira_issues", "nonlist", <<>>)}

\* no function is called on its own
NoArgs == [value |-> PyNone, existing_record |-> <<>>, new_record |-> <<>>]

NotCalled == [fn |-> "", v |-> PyNone]

\* the state after DataInserter() and before insert_data(data), on an empty store
InitRevision(B, V) ==
    /\ revision \in V
    /\ data \in B
    /\ pc = "loop"
    /\ ti = 1
    /\ ri = 1
    /\ ncall = 1
    /\ db = [t \in DOMAIN table_configs |-> <<>>]
    /\ totals = InitTotals
    /\ table_stats = InitTableStats
    /\ hist = <<>>
    /\ args = NoArgs
    /\ returned = NotCalled

InitWith(B) ==
    /\ revision = "ultimate.py"
    /\ data \in B
    /\ pc = "loop"
    /\ ti = 1
    /\ ri = 1
    /\ ncall = 1
    /\ db = [t \in DOMAIN table_configs |-> <<>>]
    /\ totals = InitTotals
    /\ table_stats = InitTableStats
    /\ hist = <<>>
    /\ args = NoArgs
    /\ returned = NotCalled

Init == InitWith(Batches(Items, MaxBatchLen))

InLoop == pc = "loop" /\ ti <= Len(data)

AtItem == InLoop /\ data[ti].isList /\ ri <= Len(data[ti].records)

\* lines 323-325
SkipNonList ==
    /\ InLoop /\ ~data[ti].isList
    /\ ti' = ti + 1 /\ ri' = 1
    /\ UNCHANGED <<revision, data, pc, ncall, db, totals, table_stats, hist, args, returned>>

\* line 328: the list of the table is exhausted
NextTable ==
    /\ InLoop /\ data[ti].isList /\ ri > Len(data[ti].records)
    /\ ti' = ti + 1 /\ ri' = 1
    /\ UNCHANGED <<revision, data, pc, ncall, db, totals, table_stats, hist, args, returned>>

\* the item after one that is no dict passed over with it
SkipNonDictAndNext ==
    /\ AtItem /\ ~data[ti].records[ri].isDict
    /\ ri' = ri + 2
    /\ UNCHANGED <<revision, data, pc, ti, ncall, db, totals, table_stats, hist, args, returned>>

\* lines 329-331
SkipNonDict ==
    /\ AtItem /\ ~data[ti].records[ri].isDict
    /\ ri' = ri + 1
    /\ UNCHANGED <<revision, data, pc, ti, ncall, db, totals, table_stats, hist, args, returned>>

\* line 333 with the call it makes; an exception that leaves
\* insert_or_update_record leaves insert_data too
Reconciled(fail, pick) ==
    \E R \in {insert_or_update_record(data[ti].table, data[ti].records[ri].fields,
                                      [db |-> db, totals |-> totals, stats |-> table_stats],
                                      fail, pick)} :
        /\ (fail # "none") => \E i \in 1..Len(R.calls) : ~R.calls[i].ok
        /\ db' = R.db
        /\ totals' = R.totals
        /\ table_stats' = R.stats
        /\ hist' = Append(hist, [call |-> ncall, ti |-> ti, ri |-> ri, outcome |-> R.outcome,
                                 calls |-> R.calls, found |-> R.found, row |-> R.row,
                                 db0 |-> db, totals0 |-> totals, stats0 |-> table_stats])
        /\ IF R.outcome = "KeyError"
           THEN pc' = "raised" /\ ri' = ri
           ELSE pc' = pc /\ ri' = ri + 1
        /\ UNCHANGED <<revision, data, ti, ncall, args, returned>>

Picks ==
    IF data[ti].table \in DOMAIN db /\ db[data[ti].table] # <<>>
    THEN 1..Len(db[data[ti].table]) ELSE {1}

\* the storage collaborator executes every statement of the call
Reconcile ==
    /\ AtItem /\ data[ti].records[ri].isDict
    /\ \E pick \in Picks : Reconciled("none", pick)

\* the storage collaborator raises on the lookup or on the write of the call
ReconcileStorageError ==
    /\ AtItem /\ data[ti].records[ri].isDict
    /\ \E fail \in {"select", "write"} : \E pick \in Picks : Reconciled(fail, pick)

\* lines 335-353: both loops are done, the statistics are logged
LogStatistics ==
    /\ pc = "loop" /\ ti > Len(data)
    /\ pc' = "done"
    /\ UNCHANGED <<revision, data, ti, ri, ncall, db, totals, table_stats, hist, args, returned>>

\* insert_data is called again on the same DataInserter with the same batch
InsertDataAgain ==
    /\ pc = "done" /\ ncall < MaxCalls
    /\ pc' = "loop" /\ ti' = 1 /\ ri' = 1 /\ ncall' = ncall + 1
    /\ UNCHANGED <<revision, data, db, totals, table_stats, hist, args, returned>>

Next ==
    \/ SkipNonList
    \/ NextTable
    \/ SkipNonDict
    \/ Reconcile
    \/ ReconcileStorageError
    \/ LogStatistics

Spec == Init /\ [][Next]_vars

\* insert_data moves: the position of its loops changes, or it returns or raises.
\* Every step of Next is such a step, and Next has a step at every position of the
\* loops.
Advance ==
    /\ pc = "loop"
    /\ \E p \in {"loop", "done", "raised"} \X (1..(MaxBatchLen + 2)) \X (1..(MaxBatchLen + 2)) :
          /\ p # <<pc, ti, ri>>
          /\ pc' = p[1] /\ ti' = p[2] /\ ri' = p[3]

\* insert_data is one sequential loop that no other process holds up: while it is
\* in the loop it goes on
SpecLive == Init /\ [][Next]_vars /\ WF_<<pc, ti, ri>>(Advance)

(***************************************************************************)
(* Batches of records of one unique key that differ in a plain column      *)
(* (coverage) and in a JSON column (artifact_info: absent, a mapping, the  *)
(* same mapping in another key order, another mapping), reconciled against *)
(* a store that does not fail.                                             *)
(***************************************************************************)
DictAB == PyDict(<<Pair(<<"a">>, PyInt(1)), Pair(<<"b">>, PyInt(2))>>)

DictBA == PyDict(<<Pair(<<"b">>, PyInt(2)), Pair(<<"a">>, PyInt(1))>>)

DictAB3 == PyDict(<<Pair(<<"a">>, PyInt(1)), Pair(<<"b">>, PyInt(3))>>)

ItemsDiff ==
    {FlatItem("unit_test_records", "dict", r) : r \in {Rec08, Rec09}}
      \cup {FlatItem("unit_test_records", "dict", r \o <<Field("artifact_info", d)>>) :
                r \in {Rec08, Rec09}, d \in {DictAB, DictBA, DictAB3}}
      \cup {FlatItem("unit_test_records", "nondict", <<>>),
            FlatItem("jira_issues", "nonlist", <<>>)}

InitDiff == InitWith(Batches(ItemsDiff, MaxBatchLen))

\* one call of insert_data against a store that does not fail
NextDiff ==
    \/ SkipNonList
    \/ NextTable
    \/ SkipNonDict
    \/ Reconcile
    \/ LogStatistics

SpecDiff == InitDiff /\ [][NextDiff]_vars

(***************************************************************************)
(* Batches that are reconciled a second time, against a store that never   *)
(* fails: records of sevenps_result_set with a value of every kind in a    *)
(* plain column (status) and in a JSON column (report_doc), and a record   *)
(* whose unique key is null.                                               *)
(***************************************************************************)
Text_t1 == <<"t", "1">>
Text_t2 == <<"t", "2">>

ValueKinds ==
    {PyStr(<<"x">>), PyInt(1), PyBool(TRUE), PyNone,
     PyDict(<<Pair(<<"a">>, PyInt(1))>>), PyList(<<Item(PyInt(1))>>)}

ItemsReplay ==
    {FlatItem("sevenps_result_set", "dict",
              <<Field("test_request_id", PyStr(Text_t1)), Field(c, v)>>) :
        c \in {"status", "report_doc"}, v \in ValueKinds}
      \cup {FlatItem("sevenps_result_set", "dict",
                     <<Field("test_request_id", PyStr(Text_t2)), Field("status", v)>>) :
                v \in {PyStr(<<"x">>), PyNone}}
      \cup {FlatItem("sevenps_result_set", "dict",
                     <<Field("test_request_id", PyNone), Field("status", PyStr(<<"x">>))>>)}
      \cup {FlatItem("sevenps_result_set", "nondict", <<>>),
            FlatItem("jira_issues", "nonlist", <<>>)}

InitReplay == InitWith(Batches(ItemsReplay, MaxReplayLen))

NextReplay ==
    \/ SkipNonList
    \/ NextTable
    \/ SkipNonDict
    \/ Reconcile
    \/ LogStatistics
    \/ InsertDataAgain

SpecReplay == InitReplay /\ [][NextReplay]_vars

(***************************************************************************)
(* One batch handed to insert_data of any of the four revisions, against a *)
(* store that may fail.                                                    *)
(***************************************************************************)
RecInfo == Rec08 \o <<Field("id", PyInt(7)), Field("artifact_info", DictAB)>>

RecInfoBA == Rec08 \o <<Field("artifact_info", DictBA)>>

\* a value for every JSON column of unit_test_records
Docs ==
    <<Field("artifact_info", DictAB), Field("message_blob", PyDict(<<>>)),
      Field("policy_reasons", PyList(<<>>))>>

RecDocs08 == Rec08 \o Docs

RecDocs09 == Rec09 \o Docs

ItemsRevisions ==
    {FlatItem("unit_test_records", "dict", r) :
        r \in {Rec08, Rec09, RecInfo, RecInfoBA, RecDocs08, RecDocs09, RecNoVersion}}
      \cup {FlatItem("unknown_table", "dict", Rec08),
            FlatItem("unit_test_records", "nondict", <<>>),
            FlatItem("jira_issues", "nonlist", <<>>)}

InitRevisions == InitRevision(Batches(ItemsRevisions, MaxRevisionLen), Revisions)

\* the call of insert_or_update_record in insert_data of the revision that runs
ReconciledIn(fail, pick) ==
    \E R \in {RevisionHandler(revision, data[ti].table, data[ti].records[ri].fields,
                              [db |-> db, totals |-> totals, stats |-> table_stats],
                              fail, pick)} :
        /\ (fail # "none") => \E i \in 1..Len(R.calls) : ~R.calls[i].ok
        /\ db' = R.db
        /\ totals' = R.totals
        /\ table_stats' = R.stats
        /\ hist' = Append(hist, [call |-> ncall, ti |-> ti, ri |-> ri, outcome |-> R.outcome,
                                 calls |-> R.calls, found |-> R.found, row |-> R.row,
                                 db0 |-> db, totals0 |-> totals, stats0 |-> table_stats])
        /\ IF R.outcome = "KeyError"
           THEN pc' = "raised" /\ ri' = ri
           ELSE pc' = pc /\ ri' = ri + 1
        /\ UNCHANGED <<revision, data, ti, ncall, args, returned>>

ReconcileIn ==
    /\ AtItem /\ data[ti].records[ri].isDict
    /\ \E pick \in Picks : ReconciledIn("none", pick)

ReconcileInStorageError ==
    /\ AtItem /\ data[ti].records[ri].isDict
    /\ \E fail \in {"select", "write"} : \E pick \in Picks : ReconciledIn(fail, pick)

\* sample.py has no statistics to log: there LogStatistics is the return of insert_data
NextRevisions ==
    \/ SkipNonList
    \/ NextTable
    \/ SkipNonDict
    \/ ReconcileIn
    \/ ReconcileInStorageError
    \/ LogStatistics

SpecRevisions == InitRevisions /\ [][NextRevisions]_vars

(***************************************************************************)
(* What a call of insert_or_update_record did, read from hist.             *)
(***************************************************************************)
EntryTable(e) == data[e.ti].table

EntryRecord(e) == data[e.ti].records[e.ri].fields

TotalsAfter(i) == IF i < Len(hist) THEN hist[i + 1].totals0 ELSE totals

StatsAfter(i) == IF i < Len(hist) THEN hist[i + 1].stats0 ELSE table_stats

DbAfter(i) == IF i < Len(hist) THEN hist[i + 1].db0 ELSE db

\* by how much call i raised a global counter, and a counter of a table
Delta(i, c) == TotalsAfter(i)[c] - hist[i].totals0[c]

TableDelta(i, t, c) == StatsAfter(i)[t][c] - hist[i].stats0[t][c]

OutcomeCounters == {"insertions", "updates", "skips", "failures"}

Balanced(c) == c.total = c.insertions + c.updates + c.skips + c.failures

\* call i counted the record under counter c and under no other outcome, in both scopes
CountedAs(i, c) ==
    /\ Delta(i, "total") = 1
    /\ TableDelta(i, EntryTable(hist[i]), "total") = 1
    /\ \A o \in OutcomeCounters :
          /\ Delta(i, o) = (IF o = c THEN 1 ELSE 0)
          /\ TableDelta(i, EntryTable(hist[i]), o) = (IF o = c THEN 1 ELSE 0)

HasFailedCall(e) == \E j \in 1..Len(e.calls) : ~e.calls[j].ok

Configured(e) == EntryTable(e) \in DOMAIN table_configs

OmitsUniqueKey(e) ==
    \E j \in 1..Len(table_configs[EntryTable(e)].unique_keys) :
        table_configs[EntryTable(e)].unique_keys[j] \notin Keys(clean_record_keys(EntryRecord(e)))

\* C1: once insert_data has processed a batch (it returned, or an exception left it),
\* total = insertions + updates + skips + failures holds of the global counters and
\* of the counters of every entity type.
C1_TotalsBalance ==
    pc \in {"done", "raised"} =>
        /\ Balanced(totals)
        /\ \A t \in DOMAIN table_stats : Balanced(table_stats[t])

\* C3: every call of insert_or_update_record resolves to exactly one terminal outcome:
\* it raises total by one and exactly one of insertions, updates, skips, failures by
\* one, globally and for its entity type, and none returns without an outcome.  (Stated
\* for the table names that pass validate_table_name.)
C3_OneOutcomePerCall ==
    \A i \in 1..Len(hist) :
        validate_table_name(EntryTable(hist[i])) =>
            /\ hist[i].outcome \in {"Inserted", "Updated", "Skipped", "Failed"}
            /\ Delta(i, "total") = 1
            /\ \E c \in OutcomeCounters : \A o \in OutcomeCounters :
                  Delta(i, o) = (IF o = c THEN 1 ELSE 0)
            /\ EntryTable(hist[i]) \in DOMAIN StatsAfter(i)
            /\ \E c \in OutcomeCounters : CountedAs(i, c)

\* C4: a record under an entity type without an entry in table_configs is Skipped
\* (skip counter raised, failure counter not) and causes no storage call.
C4_UnconfiguredSkipped ==
    \A i \in 1..Len(hist) :
        (validate_table_name(EntryTable(hist[i])) /\ ~Configured(hist[i])) =>
            /\ hist[i].outcome = "Skipped"
            /\ Delta(i, "skips") = 1
            /\ Delta(i, "failures") = 0
            /\ hist[i].calls = <<>>

\* C5: a record of a configured entity type that omits a unique-key field is Failed:
\* no statement reaches storage, the failure counters of the entity type and of the
\* run rise by exactly 1 and no other outcome counter changes.
C5_MissingKeyFails ==
    \A i \in 1..Len(hist) :
        (Configured(hist[i]) /\ OmitsUniqueKey(hist[i])) =>
            /\ hist[i].outcome = "Failed"
            /\ hist[i].calls = <<>>
            /\ DbAfter(i) = hist[i].db0
            /\ CountedAs(i, "failures")

\* a record without artifact_version, one without artifact_name and one without
\* artifact_url have been reconciled
C5_Witness ==
    \A k \in {"artifact_url", "artifact_name", "artifact_version"} :
        \E i \in 1..Len(hist) :
            /\ Configured(hist[i])
            /\ k \notin Keys(clean_record_keys(EntryRecord(hist[i])))
            /\ hist[i].outcome = "Failed"

\* the number of dict items of the batch
DictItems ==
    Cardinality({<<a, b>> \in (1..Len(data)) \X (1..MaxBatchLen + 1) :
                    /\ data[a].isList /\ b <= Len(data[a].records)
                    /\ data[a].records[b].isDict})

\* C6: no error of one record leaves insert_or_update_record or stops the batch:
\* insert_data goes on to every later record.
C6_NoErrorEscapes ==
    /\ pc # "raised"
    /\ pc = "done" => Len(hist) = DictItems

\* the loops of insert_data have gone past the item of call e
PastItem(e) == e.call < ncall \/ ti > e.ti \/ (ti = e.ti /\ ri > e.ri)

\* call f was made for an item after that of call e
Later(e, f) == e.call < f.call \/ f.ti > e.ti \/ (f.ti = e.ti /\ f.ri > e.ri)

\* C7: a storage error on the lookup, the insert or the update makes the record
\* Failed (failure counters +1, insertion and update counters unchanged), the
\* statement is not issued again, and the loop goes on with the next item.
C7_StorageErrorFails ==
    \A i \in 1..Len(hist) :
        HasFailedCall(hist[i]) =>
            /\ hist[i].outcome = "Failed"
            /\ CountedAs(i, "failures")
            /\ ~hist[i].calls[Len(hist[i].calls)].ok
            /\ \A j, k \in 1..Len(hist[i].calls) :
                  j # k => hist[i].calls[j].op # hist[i].calls[k].op
            /\ DbAfter(i) = hist[i].db0
            /\ i = Len(hist) => (pc # "raised" /\ PastItem(hist[i]))
            /\ i < Len(hist) => Later(hist[i], hist[i + 1])

\* an UPDATE was refused, and the record after it was reconciled
C7_Witness ==
    \E i \in 1..Len(hist) - 1 :
        \E j \in 1..Len(hist[i].calls) :
            hist[i].calls[j].op = "UPDATE" /\ ~hist[i].calls[j].ok

(***************************************************************************)
(* Reconciling a batch again.                                              *)
(***************************************************************************)
SameUniqueKey(table_name, r1, r2) ==
    /\ table_name \in DOMAIN table_configs
    /\ \A j \in 1..Len(table_configs[table_name].unique_keys) :
          LET key == table_configs[table_name].unique_keys[j]
          IN  /\ HasKey(clean_record_keys(r1), key)
              /\ HasKey(clean_record_keys(r2), key)
              /\ PyEq(Get(clean_record_keys(r1), key), Get(clean_record_keys(r2), key))

\* no two records of the batch stand for the same row
DistinctRecords ==
    \A e \in 1..Len(data) : \A a, b \in 1..Len(data[e].records) :
        (a < b /\ data[e].records[a].isDict /\ data[e].records[b].isDict)
            => ~SameUniqueKey(data[e].table, data[e].records[a].fields,
                              data[e].records[b].fields)

SamePosition(e1, e2) == e1.ti = e2.ti /\ e1.ri = e2.ri

\* C2: when a batch (of records of distinct unique keys) is reconciled twice against
\* a store that never fails, the second pass inserts nothing and updates nothing:
\* every record the first pass Inserted or Updated is Skipped by the second, whatever
\* the kind of its field values (string, number, boolean, null, mapping, sequence).
C2_SecondPassSkips ==
    DistinctRecords =>
        \A j \in 1..Len(hist) :
            hist[j].call = 2 =>
                /\ hist[j].outcome \notin {"Inserted", "Updated"}
                /\ \A i \in 1..Len(hist) :
                      (hist[i].call = 1 /\ SamePosition(hist[i], hist[j])
                         /\ hist[i].outcome \in {"Inserted", "Updated"})
                          => hist[j].outcome = "Skipped"

(***************************************************************************)
(* The differ and the update.                                              *)
(***************************************************************************)
\* json.dumps of the mapping {"a": 1, "b": 2}
Text_ab == <<"{", "\"", "a", "\"", ":", " ", "1", ",", " ", "\"", "b", "\"", ":", " ", "2", "}">>

Candidate(e) == clean_record_keys(EntryRecord(e))

\* the row the lookup of call e returned, as a mapping of the selected columns
ExistingRecord(e) == [c \in e.calls[1].columns |-> e.row[c]]

Updates(e) == {j \in 1..Len(e.calls) : e.calls[j].op = "UPDATE"}

\* the latest call of insert_or_update_record; hist only grows, so what holds of the
\* latest call in every state holds of every call
Latest == IF hist = <<>> THEN {} ELSE {Len(hist)}

\* the row holds {"a": 1, "b": 2} as text and the candidate the mapping {b: 2, a: 1}
KeyOrderCase(e) ==
    /\ e.found
    /\ e.row["artifact_info"] = PyStr(Text_ab)
    /\ HasKey(Candidate(e), "artifact_info")
    /\ Get(Candidate(e), "artifact_info") = DictBA

\* every other field of the candidate equals, as text, what the row holds
OthersEqual(e) ==
    \A k \in 1..Len(Candidate(e)) :
        Candidate(e)[k].k # "artifact_info"
            => e.row[Candidate(e)[k].k] = PyStr(serialize_field(Candidate(e)[k].v))

\* C8: for the JSON column artifact_info, a stored text {"a": 1, "b": 2} and a
\* candidate mapping {b: 2, a: 1} are judged equal: records_differ reports no
\* difference for the field (the record is Skipped when nothing else differs) and
\* no UPDATE has the field in its SET list.
C8_KeyOrderJudgedEqual ==
    \A i \in Latest :
        KeyOrderCase(hist[i]) =>
            /\ \A j \in Updates(hist[i]) : ~HasKey(hist[i].calls[j].fields, "artifact_info")
            /\ (OthersEqual(hist[i]) /\ hist[i].calls[1].ok)
                  => (hist[i].outcome = "Skipped" /\ Len(hist[i].calls) = 1)

C8_Witness ==
    \E i, j \in 1..Len(hist) :
        /\ KeyOrderCase(hist[i]) /\ OthersEqual(hist[i]) /\ hist[i].outcome = "Skipped"
        /\ KeyOrderCase(hist[j]) /\ hist[j].outcome = "Updated"

\* the names of the fields the differ judges different from the existing row
DifferingFields(e) ==
    {Candidate(e)[k].k : k \in
        {n \in 1..Len(Candidate(e)) :
            /\ ~InList(Candidate(e)[n].k, table_configs[EntryTable(e)].excluded_columns)
            /\ ColumnDiffers(ExistingRecord(e), Candidate(e)[n].k, Candidate(e)[n].v,
                             table_configs[EntryTable(e)].json_columns)}}

\* C9: whenever an UPDATE is issued, the fields of its SET list are exactly the
\* non-excluded fields of the candidate that differ from the existing row under the
\* comparison of the differ (parsed for JSON columns, textual otherwise), each once.
C9_MinimalDiff ==
    \A i \in Latest : \A j \in Updates(hist[i]) :
        /\ Keys(hist[i].calls[j].fields) = DifferingFields(hist[i])
        /\ Len(hist[i].calls[j].fields) = Cardinality(DifferingFields(hist[i]))

\* an UPDATE that leaves alone a JSON column whose stored text is not the text of
\* the candidate, and another that rewrites the JSON column
C9_Witness ==
    \E i, j \in 1..Len(hist) :
        /\ Updates(hist[i]) # {}
        /\ HasKey(Candidate(hist[i]), "artifact_info")
        /\ hist[i].row["artifact_info"]
              # PyStr(serialize_field(Get(Candidate(hist[i]), "artifact_info")))
        /\ DifferingFields(hist[i]) = {"coverage"}
        /\ Updates(hist[j]) # {}
        /\ "artifact_info" \in DifferingFields(hist[j])

(***************************************************************************)
(* One record of unit_test_records reconciled three times.                 *)
(***************************************************************************)
EndToEndBatch ==
    <<[table |-> "unit_test_records", isList |-> TRUE,
       records |-> <<[isDict |-> TRUE, fields |-> Rec08],
                     [isDict |-> TRUE, fields |-> Rec08],
                     [isDict |-> TRUE, fields |-> Rec09]>>]>>

NoStorageError == \A i \in 1..Len(hist) : ~HasFailedCall(hist[i])

Writes(e) == {j \in 1..Len(e.calls) : e.calls[j].op \in {"INSERT", "UPDATE"}}

\* C10: on an empty store that does not fail, reconciling the unit_test_records
\* record (u, n, v1, coverage 0.8) is Inserted with total = 1 and insertions = 1;
\* reconciling it again is Skipped and writes nothing; reconciling it with coverage
\* 0.9 is Updated and the UPDATE writes exactly the field coverage.
C10_EndToEnd ==
    (data = EndToEndBatch /\ NoStorageError) =>
        /\ Len(hist) >= 1 =>
              /\ hist[1].outcome = "Inserted"
              /\ TotalsAfter(1) = [ZeroCounters EXCEPT !.total = 1, !.insertions = 1]
              /\ StatsAfter(1)["unit_test_records"]
                    = [ZeroCounters EXCEPT !.total = 1, !.insertions = 1]
        /\ Len(hist) >= 2 =>
              /\ hist[2].outcome = "Skipped"
              /\ Writes(hist[2]) = {}
              /\ DbAfter(2) = hist[2].db0
        /\ Len(hist) >= 3 =>
              /\ hist[3].outcome = "Updated"
              /\ Len(hist[3].calls) = 2
              /\ hist[3].calls[2].op = "UPDATE"
              /\ hist[3].calls[2].fields = <<Field("coverage", PyStr(Text_09))>>
              /\ DbAfter(3)["unit_test_records"][1]["coverage"] = PyStr(Text_09)

C10_Witness ==
    /\ data = EndToEndBatch /\ NoStorageError
    /\ Len(hist) = 3 /\ hist[3].outcome = "Updated"
    /\ pc = "done"

(***************************************************************************)
(* Entries and items of the wrong shape.                                   *)
(***************************************************************************)
\* C11: an entry whose value is no list, and an item of a list that is no mapping,
\* are passed over without a storage call and are counted as skipped: the step
\* that passes over one leaves the store alone, issues no statement and raises
\* total_skips by one.
C11_ShapeSkipsCounted ==
    [][(SkipNonList \/ SkipNonDict) =>
          /\ db' = db
          /\ hist' = hist
          /\ totals'.skips = totals.skips + 1
          /\ totals'.failures = totals.failures]_vars

(***************************************************************************)
(* Unique keys.                                                            *)
(***************************************************************************)
\* the candidate has every unique-key field of its table, one of them with value None
HasNullUniqueKey(e) ==
    /\ Configured(e)
    /\ ~OmitsUniqueKey(e)
    /\ \E j \in 1..Len(table_configs[EntryTable(e)].unique_keys) :
          Get(Candidate(e), table_configs[EntryTable(e)].unique_keys[j]) = PyNone

\* C12: a record whose unique-key field is present with a null value is rejected as
\* Failed before any lookup or write, like a record that lacks the field: no
\* statement is issued for it and the store is left as it was.
C12_NullKeyFails ==
    \A i \in 1..Len(hist) :
        HasNullUniqueKey(hist[i]) =>
            /\ hist[i].outcome = "Failed"
            /\ hist[i].calls = <<>>
            /\ DbAfter(i) = hist[i].db0

\* C13: the records of a batch are reconciled one after another in the order of the
\* batch, so the lookup of a record sees the row written for an earlier record of
\* the same table and unique key: when the store does not fail and the earlier one
\* is Inserted, the later one finds a row and is Updated or Skipped, never Inserted.
C13_LaterSeesEarlierWrite ==
    \A i, j \in 1..Len(hist) :
        (/\ i < j
         /\ hist[i].call = hist[j].call
         /\ hist[i].ti = hist[j].ti
         /\ SameUniqueKey(EntryTable(hist[i]), EntryRecord(hist[i]), EntryRecord(hist[j]))
         /\ hist[i].outcome = "Inserted")
            => (hist[j].found /\ hist[j].outcome \in {"Updated", "Skipped"})

(***************************************************************************)
(* The statistics of a further call of insert_data.                        *)
(***************************************************************************)
CallsOf(n) == {i \in 1..Len(hist) : hist[i].call = n}

\* C14: the counters are reset at the start of each batch: when insert_data has
\* returned from its second call on one DataInserter, total_records counts the
\* records of the second batch only.
C14_CountersResetPerBatch ==
    (pc = "done" /\ ncall = 2) => totals.total = Cardinality(CallsOf(2))

(***************************************************************************)
(* Batches of records of one unique key with an excluded field (id) and a  *)
(* JSON field (artifact_info), with and without whitespace around the      *)
(* field names, and with a number in a plain field, reconciled against a   *)
(* store that may fail.                                                    *)
(***************************************************************************)
RecFloat ==
    <<Field("artifact_url", PyStr(Text_u)), Field("artifact_name", PyStr(Text_n)),
      Field("artifact_version", PyStr(Text_v1)), Field("coverage", PyFloat(8, 1))>>

RecFull == Rec08 \o <<Field("id", PyInt(7)), Field("artifact_info", DictAB)>>

RecSpaced ==
    <<Field("artifact_url", PyStr(Text_u)), Field("artifact_name", PyStr(Text_n)),
      Field(" artifact_version", PyStr(Text_v1)), Field("coverage", PyStr(Text_08)),
      Field("id ", PyInt(7)), Field(" artifact_info ", DictBA)>>

ItemsFields ==
    {FlatItem("unit_test_records", "dict", r) : r \in {RecFloat, Rec09, RecFull, RecSpaced}}
      \cup {FlatItem("unit_test_records", "nondict", <<>>),
            FlatItem("jira_issues", "nonlist", <<>>)}

InitFields == InitWith(Batches(ItemsFields, MaxBatchLen))

SpecFields == InitFields /\ [][Next]_vars

(***************************************************************************)
(* What a reconciliation writes.                                           *)
(***************************************************************************)
\* C15: when the lookup finds a row and no non-excluded field of the candidate
\* differs from it, the outcome is Skipped: the SELECT is the only statement, the
\* store is unchanged, and the skip counters (global and of the table) are the only
\* outcome counters raised.
C15_NoDifferenceSkips ==
    \A i \in Latest :
        (hist[i].found /\ DifferingFields(hist[i]) = {}) =>
            /\ hist[i].outcome = "Skipped"
            /\ Len(hist[i].calls) = 1
            /\ Writes(hist[i]) = {}
            /\ DbAfter(i) = hist[i].db0
            /\ CountedAs(i, "skips")

\* a found row equal to the candidate although the text of its JSON column is not
\* the text of the candidate's mapping
C15_Witness ==
    \E i \in 1..Len(hist) :
        /\ hist[i].found /\ DifferingFields(hist[i]) = {}
        /\ hist[i].outcome = "Skipped"
        /\ EntryRecord(hist[i]) = RecSpaced
        /\ hist[i].row["artifact_info"] = PyStr(Text_ab)

\* C16: a reconciliation that found a row leaves every field the candidate does not
\* name as it was, in every row of the table, and removes no row: an UPDATE never
\* overwrites a stored field that is absent from the candidate.
C16_UpdateKeepsUnmentioned ==
    \A i \in Latest :
        hist[i].found =>
            /\ Len(DbAfter(i)[EntryTable(hist[i])]) = Len(hist[i].db0[EntryTable(hist[i])])
            /\ \A r \in 1..Len(hist[i].db0[EntryTable(hist[i])]) :
                  \A c \in Columns \ Keys(Candidate(hist[i])) :
                      DbAfter(i)[EntryTable(hist[i])][r][c]
                          = hist[i].db0[EntryTable(hist[i])][r][c]

\* an UPDATE of a row that holds a JSON document the candidate does not name
C16_Witness ==
    \E i \in 1..Len(hist) :
        /\ hist[i].outcome = "Updated"
        /\ ~HasKey(Candidate(hist[i]), "artifact_info")
        /\ hist[i].row["artifact_info"] = PyStr(Text_ab)
        /\ DbAfter(i)["unit_test_records"][1]["artifact_info"] = PyStr(Text_ab)
        /\ DbAfter(i)["unit_test_records"][1]["coverage"] = PyStr(Text_09)

\* the lookup of call e succeeded and no row of the table has the unique key
NoRowMatches(e) ==
    /\ e.calls # <<>>
    /\ e.calls[1].ok
    /\ \A r \in 1..Len(e.db0[EntryTable(e)]) :
          ~RowMatches(e.db0[EntryTable(e)][r], e.calls[1].where)

Excluded(e) == table_configs[EntryTable(e)].excluded_columns

\* the value the INSERT of call e is to write for field k of the candidate
InsertedValue(e, k) ==
    IF InList(k, table_configs[EntryTable(e)].json_columns)
    THEN PyStr(serialize_field(Get(Candidate(e), k)))
    ELSE Get(Candidate(e), k)

\* the row that holds the non-excluded fields of the candidate and nothing else
InsertedRow(e) ==
    [c \in Columns |->
        IF HasKey(Candidate(e), c) /\ ~InList(c, Excluded(e)) THEN InsertedValue(e, c)
        ELSE PyNone]

\* C17: when the lookup succeeds and no row has the unique key, one INSERT is issued
\* whose fields are exactly the non-excluded fields of the candidate, each once, a
\* JSON column with its serialize_field text and any other column with the value as
\* given; when it succeeds the record is Inserted and the row is added to the table,
\* when the store refuses it the record is Failed, the insertion counters stay and
\* the store is unchanged.
C17_InsertWritesCandidate ==
    \A i \in Latest :
        NoRowMatches(hist[i]) =>
            /\ Len(hist[i].calls) = 2
            /\ hist[i].calls[2].op = "INSERT"
            /\ Keys(hist[i].calls[2].fields)
                  = {k \in Keys(Candidate(hist[i])) : ~InList(k, Excluded(hist[i]))}
            /\ Len(hist[i].calls[2].fields) = Cardinality(Keys(hist[i].calls[2].fields))
            /\ \A n \in 1..Len(hist[i].calls[2].fields) :
                  hist[i].calls[2].fields[n].v
                      = InsertedValue(hist[i], hist[i].calls[2].fields[n].k)
            /\ IF hist[i].calls[2].ok
               THEN /\ hist[i].outcome = "Inserted"
                    /\ CountedAs(i, "insertions")
                    /\ DbAfter(i) = [hist[i].db0 EXCEPT ![EntryTable(hist[i])] =
                                        Append(@, InsertedRow(hist[i]))]
               ELSE /\ hist[i].outcome = "Failed"
                    /\ CountedAs(i, "failures")
                    /\ DbAfter(i) = hist[i].db0

\* an INSERT of a record with a number in a plain field that the store refused, then
\* a record with an excluded field and a JSON field inserted
C17_Witness ==
    \E i, k \in 1..Len(hist) :
        /\ k < i
        /\ NoRowMatches(hist[k]) /\ ~hist[k].calls[2].ok /\ hist[k].outcome = "Failed"
        /\ EntryRecord(hist[k]) = RecFloat
        /\ Get(hist[k].calls[2].fields, "coverage") = PyFloat(8, 1)
        /\ hist[i].outcome = "Inserted" /\ EntryRecord(hist[i]) = RecSpaced
        /\ ~HasKey(hist[i].calls[2].fields, "id")
        /\ Get(hist[i].calls[2].fields, "artifact_info")
              = PyStr(serialize_field(DictBA))

\* C18: when the store refuses the lookup, the record is Failed and neither an INSERT
\* nor an UPDATE is attempted for it: the SELECT is the only statement and the store
\* is as it was.
C18_LookupErrorFails ==
    \A i \in Latest :
        (hist[i].calls # <<>> /\ ~hist[i].calls[1].ok) =>
            /\ hist[i].outcome = "Failed"
            /\ hist[i].calls[1].op = "SELECT"
            /\ Len(hist[i].calls) = 1
            /\ Writes(hist[i]) = {}
            /\ DbAfter(i) = hist[i].db0

\* a refused lookup for a record whose row exists and differs, and one for a record
\* that has no row
C18_Witness ==
    \E i, j \in 1..Len(hist) :
        /\ ~hist[i].calls[1].ok /\ hist[i].outcome = "Failed"
        /\ hist[i].db0["unit_test_records"] # <<>>
        /\ EntryRecord(hist[i]) = Rec09
        /\ ~hist[j].calls[1].ok /\ hist[j].outcome = "Failed"
        /\ hist[j].db0["unit_test_records"] = <<>>

(***************************************************************************)
(* Field names with surrounding whitespace.                                *)
(***************************************************************************)
\* RecSpaced with its field names trimmed
RecTrimmed ==
    <<Field("artifact_url", PyStr(Text_u)), Field("artifact_name", PyStr(Text_n)),
      Field("artifact_version", PyStr(Text_v1)), Field("coverage", PyStr(Text_08)),
      Field("id", PyInt(7)), Field("artifact_info", DictBA)>>

\* call e did to the store and the counters what result R says
SameEffect(e, i, R) ==
    /\ R.outcome = e.outcome
    /\ R.calls = e.calls
    /\ R.found = e.found
    /\ R.db = DbAfter(i)
    /\ R.totals = TotalsAfter(i)
    /\ R.stats = StatsAfter(i)

\* C20: field names are compared after trimming surrounding whitespace: the record
\* whose unique-key field, excluded field and JSON field are named with leading or
\* trailing blanks is reconciled exactly as the record with the trimmed names would
\* be on the same store (same statements, outcome, store and counters); its key is
\* found (a lookup is issued), its excluded field is neither selected nor written,
\* and its JSON field is compared as a document (equal to the stored text of the
\* same mapping in another key order).
C20_FieldNamesTrimmed ==
    \A i \in Latest :
        EntryRecord(hist[i]) = RecSpaced =>
            /\ \E fail \in {"none", "select", "write"} :
                  \E R \in {insert_or_update_record("unit_test_records", RecTrimmed,
                               [db |-> hist[i].db0, totals |-> hist[i].totals0,
                                stats |-> hist[i].stats0], fail, 1)} :
                      SameEffect(hist[i], i, R)
            /\ hist[i].calls # <<>>
            /\ hist[i].calls[1].op = "SELECT"
            /\ hist[i].calls[1].where
                  = <<Field("artifact_url", PyStr(Text_u)), Field("artifact_name", PyStr(Text_n)),
                      Field("artifact_version", PyStr(Text_v1))>>
            /\ {"id", "id "} \cap hist[i].calls[1].columns = {}
            /\ \A j \in 1..Len(hist[i].calls) :
                  {"id", "id "} \cap Keys(hist[i].calls[j].fields) = {}
            /\ (hist[i].found /\ hist[i].row["artifact_info"] = PyStr(Text_ab))
                  => (\A j \in Updates(hist[i]) :
                          ~HasKey(hist[i].calls[j].fields, "artifact_info"))

\* the record with blanks in its names inserted under the trimmed names, and the same
\* record found again and skipped
C20_Witness ==
    \E i, j \in 1..Len(hist) :
        /\ EntryRecord(hist[i]) = RecSpaced /\ hist[i].outcome = "Inserted"
        /\ DbAfter(i)["unit_test_records"][1]["artifact_version"] = PyStr(Text_v1)
        /\ DbAfter(i)["unit_test_records"][1]["id"] = PyNone
        /\ EntryRecord(hist[j]) = RecSpaced /\ hist[j].outcome = "Skipped"
        /\ hist[j].row["artifact_info"] = PyStr(serialize_field(DictBA))

(***************************************************************************)
(* The lookup of every revision.                                           *)
(***************************************************************************)
\* the non-excluded field names of the candidate and the unique keys of its table
ExpectedSelectColumns(e) ==
    {k \in Keys(Candidate(e)) : ~InList(k, Excluded(e))}
        \cup {table_configs[EntryTable(e)].unique_keys[j] :
                j \in 1..Len(table_configs[EntryTable(e)].unique_keys)}

\* C19: in every revision (sample.py, v2_script.py, update_update.py, ultimate.py)
\* the lookup never asks for all columns: the columns of every SELECT are exactly
\* the non-excluded field names of the candidate united with the unique keys.
C19_SelectNamesColumns ==
    \A i \in 1..Len(hist) : \A j \in 1..Len(hist[i].calls) :
        hist[i].calls[j].op = "SELECT"
            => hist[i].calls[j].columns = ExpectedSelectColumns(hist[i])

(***************************************************************************)
(* The functions of the value normalizer and the differ called on their    *)
(* own: serialize_field and ensure_parsed_json on a value of every kind a  *)
(* record can hold, records_differ on a row and a record of                *)
(* unit_test_records.  No batch is being processed.                        *)
(***************************************************************************)
Text_abc == <<"a", "b", "c">>
Text_abc_spaced == <<" ", "a", "b", "c", " ">>
Text_blank == <<" ">>
Text_blank_lines == <<" ", "\n", "\t">>
Text_a1_single == <<"{", "'", "a", "'", ":", " ", "1", "}">>
Text_list_spaced == <<" ", "[", "1", "]", "\n">>
Text_digit == <<"7">>
Text_xy == <<"x", "'", "y">>
Text_null == <<"n", "u", "l", "l">>

ScalarValues ==
    {PyNone, PyBool(TRUE), PyBool(FALSE), PyInt(0), PyInt(7), PyInt(-3), PyFloat(8, 1)}

StringValues ==
    {PyStr(t) : t \in {<<>>, Text_blank, Text_abc, Text_abc_spaced, Text_ab, Text_a1_single,
                       Text_list_spaced, Text_digit, Text_xy, Text_null, Text_08}}

StructuredValues ==
    {DictAB, DictBA, PyDict(<<>>), PyList(<<>>),
     PyList(<<Item(PyInt(1)), Item(PyStr(Text_abc))>>),
     PyDict(<<Pair(<<"a">>, PyList(<<Item(PyNone), Item(PyBool(TRUE))>>))>>)}

Values == ScalarValues \cup StringValues \cup StructuredValues

\* rows as a lookup returns them: the selected columns only
ExistingRecords ==
    {[c \in {"artifact_url"} |-> PyStr(Text_u)],
     [c \in {"artifact_url", "coverage"} |-> IF c = "coverage" THEN PyStr(Text_08) ELSE PyStr(Text_u)],
     [c \in {"artifact_url", "coverage"} |-> IF c = "coverage" THEN PyStr(<<>>) ELSE PyStr(Text_u)],
     [c \in {"artifact_url", "coverage"} |-> IF c = "coverage" THEN PyNone ELSE PyStr(Text_u)],
     [c \in {"artifact_url", "coverage"} |-> IF c = "coverage" THEN PyInt(7) ELSE PyStr(Text_u)]}
      \cup {[c \in {"artifact_url", "artifact_info"} |->
                 IF c = "artifact_info" THEN v ELSE PyStr(Text_u)] :
                v \in {PyNone, PyStr(<<>>), PyStr(Text_blank), PyStr(Text_blank_lines),
                       PyStr(Text_ab), PyStr(Text_null)}}

NewRecords ==
    {<<Field("coverage", v)>> :
        v \in {PyNone, PyStr(<<>>), PyStr(Text_08), PyStr(Text_09), PyInt(0), PyInt(7),
               PyBool(FALSE), PyFloat(8, 1), PyDict(<<>>), PyList(<<>>)}}
      \cup {<<Field("artifact_url", PyStr(Text_u)), Field("coverage", v)>> :
                v \in {PyNone, PyStr(Text_09)}}
      \cup {<<Field("id", PyInt(7)), Field("coverage", PyNone)>>}
      \cup {<<Field("artifact_info", v)>> :
                v \in {PyNone, PyStr(<<>>), PyStr(Text_blank), DictAB, PyDict(<<>>)}}
      \cup {<<Field("id", PyInt(7)), Field("artifact_info", PyStr(<<>>))>>}

InitFunctions ==
    /\ revision = "ultimate.py"
    /\ data = <<>>
    /\ pc = "idle"
    /\ ti = 1
    /\ ri = 1
    /\ ncall = 1
    /\ db = [t \in DOMAIN table_configs |-> <<>>]
    /\ totals = InitTotals
    /\ table_stats = InitTableStats
    /\ hist = <<>>
    /\ args \in [value : Values, existing_record : ExistingRecords, new_record : NewRecords]
    /\ returned = NotCalled

\* self.serialize_field(value)
CallSerializeField ==
    /\ pc = "idle"
    /\ returned' = [fn |-> "serialize_field", v |-> PyStr(serialize_field(args.value))]
    /\ UNCHANGED <<revision, data, pc, ti, ri, ncall, db, totals, table_stats, hist, args>>

\* ensure_parsed_json(value)
CallEnsureParsedJson ==
    /\ pc = "idle"
    /\ returned' = [fn |-> "ensure_parsed_json", v |-> ensure_parsed_json(args.value)]
    /\ UNCHANGED <<revision, data, pc, ti, ri, ncall, db, totals, table_stats, hist, args>>

\* self.records_differ(existing_record, new_record, json_columns, excluded_columns)
\* with the configuration of unit_test_records
CallRecordsDiffer ==
    /\ pc = "idle"
    /\ returned' = [fn |-> "records_differ",
                    v |-> PyBool(records_differ(args.existing_record, args.new_record,
                                    table_configs.unit_test_records.json_columns,
                                    table_configs.unit_test_records.excluded_columns))]
    /\ UNCHANGED <<revision, data, pc, ti, ri, ncall, db, totals, table_stats, hist, args>>

NextFunctions ==
    \/ CallSerializeField
    \/ CallEnsureParsedJson
    \/ CallRecordsDiffer

SpecFunctions == InitFunctions /\ [][NextFunctions]_vars

\* the state of the DataInserter and of the store is as DataInserter() left it
NothingElseChanged ==
    /\ db = [t \in DOMAIN table_configs |-> <<>>]
    /\ totals = InitTotals
    /\ table_stats = InitTableStats
    /\ hist = <<>>

\* the string representation of the scalars of ScalarValues, written out
ScalarText(value) ==
    CASE value = PyBool(TRUE) -> <<"T", "r", "u", "e">>
      [] value = PyBool(FALSE) -> <<"F", "a", "l", "s", "e">>
      [] value = PyInt(0) -> <<"0">>
      [] value = PyInt(7) -> <<"7">>
      [] value = PyInt(-3) -> <<"-", "3">>
      [] value = PyFloat(8, 1) -> Text_08
      [] OTHER -> value.s

\* C21: serialize_field returns a str for every value: for a dict or a list a JSON
\* text that parses back to the value (for {"a": 1, "b": 2} the text
\* {"a": 1, "b": 2}), for None the empty string, for any other scalar its string
\* representation; the call changes nothing of the DataInserter or the store.
C21_SerializeField ==
    returned.fn = "serialize_field" =>
        /\ returned.v.t = "str"
        /\ NothingElseChanged
        /\ CASE args.value.t \in {"dict", "list"} ->
                    /\ json_loads(returned.v.s).ok
                    /\ json_loads(returned.v.s).v = args.value
                    /\ args.value = DictAB => returned.v.s = Text_ab
             [] args.value.t = "none" -> returned.v.s = <<>>
             [] OTHER -> returned.v.s = ScalarText(args.value)

C21_Witness ==
    /\ returned.fn = "serialize_field"
    /\ args.value = PyNone
    /\ returned.v = PyStr(<<>>)

\* C22: ensure_parsed_json returns a dict or a list unchanged; for a str it returns
\* what json.loads gives for it when it parses, else what json.loads gives for the
\* str with ' replaced by " when that parses, else the str itself, as it was given;
\* any other value is returned as it is.
C22_EnsureParsedJson ==
    returned.fn = "ensure_parsed_json" =>
        IF args.value.t # "str" THEN returned.v = args.value
        ELSE IF json_loads(args.value.s).ok THEN returned.v = json_loads(args.value.s).v
        ELSE IF json_loads(replace_quotes(args.value.s)).ok
             THEN returned.v = json_loads(replace_quotes(args.value.s)).v
        ELSE returned.v = args.value

\* the fields of a record that records_differ compares as text
PlainFields(new_record) ==
    {i \in 1..Len(new_record) :
        /\ ~InList(new_record[i].k, table_configs.unit_test_records.excluded_columns)
        /\ ~InList(new_record[i].k, table_configs.unit_test_records.json_columns)}

\* whether a plain field of the candidate is found different from the row
PlainFieldDiffers(existing_record, field) ==
    IF field.k \in DOMAIN existing_record
    THEN ~(existing_record[field.k].t = "str"
             /\ existing_record[field.k].s = serialize_field(field.v))
    ELSE field.v \notin {PyNone, PyStr(<<>>)}

\* C27: for a record whose fields are neither excluded nor JSON columns, records_differ
\* is True exactly if some field's serialize_field text is not the str the row holds
\* for it; for a field the row has no entry for, exactly if the candidate value is
\* neither None nor "".
C27_PlainFieldTextual ==
    (returned.fn = "records_differ"
        /\ \A i \in 1..Len(args.new_record) :
              ~InList(args.new_record[i].k, table_configs.unit_test_records.json_columns))
    => (returned.v = PyBool(\E i \in PlainFields(args.new_record) :
                                PlainFieldDiffers(args.existing_record, args.new_record[i])))

C27_Witness ==
    /\ returned.fn = "records_differ"
    /\ args.new_record = <<Field("coverage", PyNone)>>
    /\ "coverage" \notin DOMAIN args.existing_record
    /\ returned.v = PyBool(FALSE)

\* call e found a row, and some field of its record that is neither excluded nor a
\* JSON column has a serialize_field text that is not what the row holds
PlainDifference(e) ==
    /\ e.found
    /\ \E k \in 1..Len(EntryRecord(e)) :
          /\ ~InList(EntryRecord(e)[k].k, table_configs[EntryTable(e)].excluded_columns)
          /\ ~InList(EntryRecord(e)[k].k, table_configs[EntryTable(e)].json_columns)
          /\ e.row[EntryRecord(e)[k].k] # PyStr(serialize_field(EntryRecord(e)[k].v))

\* C23: in sample.py and v2_script.py, a candidate that differs from the row found
\* for it in a field that is neither excluded nor a JSON column (coverage "0.8"
\* stored, "0.9" incoming) is Updated, unless the store refuses a statement.
C23_EarlyDifferSeesPlainFields ==
    revision \in {"sample.py", "v2_script.py"} =>
        \A i \in Latest :
            (PlainDifference(hist[i]) /\ ~HasFailedCall(hist[i]))
                => (hist[i].outcome = "Updated" /\ Updates(hist[i]) # {})

\* C24: in update_update.py, a stored text {"a": 1, "b": 2} of the JSON column
\* artifact_info and a candidate mapping {b: 2, a: 1} are no difference: when every
\* other field of the candidate equals what the row holds, the record is Skipped and
\* no UPDATE is issued.
C24_TextualRevisionKeyOrder ==
    revision = "update_update.py" =>
        \A i \in Latest :
            (KeyOrderCase(hist[i]) /\ OthersEqual(hist[i]) /\ hist[i].calls[1].ok)
                => (hist[i].outcome = "Skipped" /\ Updates(hist[i]) = {})

\* row holds, in every unique key of the table of call e, the value of the candidate
HasKeyOf(row, e) ==
    \A k \in 1..Len(table_configs[EntryTable(e)].unique_keys) :
        LET key == table_configs[EntryTable(e)].unique_keys[k]
        IN  row[key].t # "none" /\ row[key] = Get(Candidate(e), key)

\* the rows of table t before call i that are not rows of the candidate's key
OtherRows(i, t) ==
    {r \in 1..Len(hist[i].db0[t]) :
        t # EntryTable(hist[i]) \/ ~HasKeyOf(hist[i].db0[t][r], hist[i])}

\* C25: a call that issues an UPDATE leaves every table with the rows it had, and
\* every row that is of another table or does not hold the candidate's unique key
\* as it was.
C25_UpdateWithinUniqueKey ==
    \A i \in 1..Len(hist) :
        Updates(hist[i]) # {} =>
            \A t \in DOMAIN db :
                /\ Len(DbAfter(i)[t]) = Len(hist[i].db0[t])
                /\ \A r \in OtherRows(i, t) : DbAfter(i)[t][r] = hist[i].db0[t][r]

\* an UPDATE of the row of t1 while the table holds the row of t2
C25_Witness ==
    \E i \in 1..Len(hist) :
        /\ hist[i].outcome = "Updated"
        /\ Get(Candidate(hist[i]), "test_request_id") = PyStr(Text_t1)
        /\ \E r \in OtherRows(i, "sevenps_result_set") :
              hist[i].db0["sevenps_result_set"][r]["test_request_id"] = PyStr(Text_t2)

\* the position of the field named k in a record
PositionIn(rec, k) == CHOOSE n \in 1..Len(rec) : rec[n].k = k

\* the fields of a statement are fields of the candidate, each once, in the order in
\* which the candidate has them
InCandidateOrder(candidate, fields) ==
    /\ \A a \in 1..Len(fields) : HasKey(candidate, fields[a].k)
    /\ \A a, b \in 1..Len(fields) :
          a < b => PositionIn(candidate, fields[a].k) < PositionIn(candidate, fields[b].k)

\* the value a statement carries for a field is the candidate's value of that field:
\* its serialize_field text, or in an INSERT the value itself for a column that is
\* no JSON column
OwnValue(candidate, json_columns, op, field) ==
    IF op = "INSERT" /\ ~InList(field.k, json_columns)
    THEN field.v = Get(candidate, field.k)
    ELSE field.v = PyStr(serialize_field(Get(candidate, field.k)))

\* C26: the fields of the SET list of an UPDATE and the columns of an INSERT follow
\* the order of the candidate record (keys trimmed), and each carries the
\* candidate's value of its own field.
C26_StatementFieldOrder ==
    \A i \in Latest : \A j \in Writes(hist[i]) :
        \E candidate \in {Candidate(hist[i])} :
            /\ InCandidateOrder(candidate, hist[i].calls[j].fields)
            /\ \A a \in 1..Len(hist[i].calls[j].fields) :
                  OwnValue(candidate, table_configs[EntryTable(hist[i])].json_columns,
                           hist[i].calls[j].op, hist[i].calls[j].fields[a])

\* the INSERT of a record of four fields, then an UPDATE of two fields of a record
\* whose names are trimmed
C26_Witness ==
    \E i, j \in 1..Len(hist) :
        /\ i < j
        /\ hist[i].outcome = "Inserted"
        /\ hist[i].calls[2].fields = RecFloat
        /\ EntryRecord(hist[j]) = RecSpaced
        /\ hist[j].outcome = "Updated"
        /\ hist[j].calls[2].fields =
              <<Field("coverage", PyStr(Text_08)),
                Field("artifact_info", PyStr(serialize_field(DictBA)))>>

\* every table the batch names has a configuration
AllConfigured == \A e \in 1..Len(data) : data[e].table \in DOMAIN table_configs

\* the positions of the dict items of the batch
ItemPositions ==
    {p \in (1..Len(data)) \X (1..MaxBatchLen + 1) :
        /\ data[p[1]].isList /\ p[2] <= Len(data[p[1]].records)
        /\ data[p[1]].records[p[2]].isDict}

\* position p comes before position q in the batch
Before(p, q) == p[1] < q[1] \/ (p[1] = q[1] /\ p[2] < q[2])

\* the calls of insert_or_update_record made so far are one for every dict item of
\* the batch, in batch order
PassedOnceInOrder ==
    /\ {<<hist[i].ti, hist[i].ri>> : i \in 1..Len(hist)} = ItemPositions
    /\ \A i, j \in 1..Len(hist) :
          i < j => Before(<<hist[i].ti, hist[i].ri>>, <<hist[j].ti, hist[j].ri>>)

\* C28: for a batch whose tables are all configured, insert_data returns, and by then
\* it has passed every dict item of every list of the batch to
\* insert_or_update_record exactly once, in batch order.
C28_TerminatesEachOnce == AllConfigured => <>(pc = "done" /\ PassedOnceInOrder)

\* insert_data returned after one call, an item that is no dict and a value that is
\* no list
C28_Witness ==
    /\ pc = "done"
    /\ AllConfigured
    /\ PassedOnceInOrder
    /\ Len(hist) = 1
    /\ \E e \in 1..Len(data) : ~data[e].isList
    /\ \E e \in 1..Len(data) : data[e].isList /\ Len(data[e].records) = 2
          /\ ~data[e].records[1].isDict

\* the sum of counter c over the tables T of table_stats
RECURSIVE SumOfTables(_, _)
SumOfTables(T, c) ==
    IF T = {} THEN 0
    ELSE LET t == CHOOSE x \in T : TRUE
         IN  table_stats[t][c] + SumOfTables(T \ {t}, c)

\* C29: between the calls of insert_or_update_record, whether the last one returned
\* or raised, each global counter is the sum of the counter of that name over the
\* tables of table_stats.
C29_GlobalIsSumOfTables ==
    \A c \in Counters : totals[c] = SumOfTables(DOMAIN table_stats, c)

\* the calls i..j of insert_or_update_record were all made for one record of one
\* table
SameRecordRun(i, j) ==
    \A k \in i..j :
        /\ EntryTable(hist[k]) = EntryTable(hist[i])
        /\ EntryRecord(hist[k]) = EntryRecord(hist[i])

\* the calls of i..j that wrote to the store
WritingCalls(i, j) == {k \in i..j : Writes(hist[k]) # {}}

StringKeys ==
    \A p \in ItemPositions :
        data[p[1]].table \in DOMAIN table_configs =>
            \A k \in 1..Len(table_configs[data[p[1]].table].unique_keys) :
                LET key == table_configs[data[p[1]].table].unique_keys[k]
                    record == clean_record_keys(data[p[1]].records[p[2]].fields)
                IN  HasKey(record, key) => Get(record, key).t = "str"

\* two rows of table t hold the same values in the unique keys of t
SameKeyRows(t, a, b) ==
    \A k \in 1..Len(table_configs[t].unique_keys) :
        a[table_configs[t].unique_keys[k]] = b[table_configs[t].unique_keys[k]]

\* the store holds at most one row for a unique key
OneRowPerKey ==
    \A t \in DOMAIN db : \A a, b \in 1..Len(db[t]) :
        a < b => ~SameKeyRows(t, db[t][a], db[t][b])

\* C31: reconciling a batch whose unique-key values are strings, against a store that
\* began with at most one row per unique key, leaves at most one row per unique key:
\* an INSERT is issued only when no row of the store holds the candidate's key, and
\* an UPDATE leaves the unique-key fields of every row as they were.
C31_OneRowPerKey ==
    StringKeys =>
        /\ OneRowPerKey
        /\ \A i \in 1..Len(hist) : \A j \in 1..Len(hist[i].calls) :
              /\ hist[i].calls[j].op = "INSERT" =>
                    \A r \in 1..Len(hist[i].db0[EntryTable(hist[i])]) :
                        ~HasKeyOf(hist[i].db0[EntryTable(hist[i])][r], hist[i])
              /\ hist[i].calls[j].op = "UPDATE" =>
                    \A r \in 1..Len(hist[i].db0[EntryTable(hist[i])]) :
                        SameKeyRows(EntryTable(hist[i]), DbAfter(i)[EntryTable(hist[i])][r],
                                    hist[i].db0[EntryTable(hist[i])][r])

\* the rows of t1 and t2, the one of t1 updated after both were inserted
C31_Witness ==
    /\ StringKeys
    /\ Len(db["sevenps_result_set"]) = 2
    /\ \E i \in 1..Len(hist) :
          /\ hist[i].outcome = "Updated"
          /\ Len(hist[i].db0["sevenps_result_set"]) = 2

\* C32: a call of insert_or_update_record issues at most two statements: first a
\* SELECT, and after a SELECT that succeeded at most one INSERT or UPDATE, never
\* both; no statement follows a SELECT that failed.
C32_OneLookupOneWrite ==
    \A i \in 1..Len(hist) :
        /\ Len(hist[i].calls) <= 2
        /\ Len(hist[i].calls) >= 1 => hist[i].calls[1].op = "SELECT"
        /\ Len(hist[i].calls) = 2 =>
              /\ hist[i].calls[1].ok
              /\ hist[i].calls[2].op \in {"INSERT", "UPDATE"}
        /\ Cardinality(Writes(hist[i])) <= 1

\* an INSERT that failed and an UPDATE that succeeded
C32_Witness ==
    \E j, k \in 1..Len(hist) :
        /\ Len(hist[j].calls) = 2 /\ hist[j].calls[2].op = "INSERT" /\ ~hist[j].calls[2].ok
        /\ Len(hist[k].calls) = 2 /\ hist[k].calls[2].op = "UPDATE" /\ hist[k].calls[2].ok

\* the statements of kind op that the store completed, as (call, statement) pairs
Completed(op) ==
    {p \in (1..Len(hist)) \X (1..2) :
        /\ p[2] <= Len(hist[p[1]].calls)
        /\ hist[p[1]].calls[p[2]].op = op
        /\ hist[p[1]].calls[p[2]].ok}

\* call i issued an INSERT or UPDATE that the store refused
WriteRaised(i) == \E j \in Writes(hist[i]) : ~hist[i].calls[j].ok

\* C33: total_insertions is the number of INSERT statements the store completed and
\* total_updates the number of UPDATE statements it completed; a call whose INSERT
\* or UPDATE raised adds 1 to the failures and nothing to insertions, updates or
\* skips.
C33_WriteCountersMatchStore ==
    /\ totals.insertions = Cardinality(Completed("INSERT"))
    /\ totals.updates = Cardinality(Completed("UPDATE"))
    /\ \A i \in 1..Len(hist) : WriteRaised(i) => CountedAs(i, "failures")

\* an INSERT and an UPDATE that raised, an INSERT that completed
C33_Witness ==
    /\ totals.insertions = 1
    /\ totals.updates = 0
    /\ totals.failures = 2
    /\ \E i, j \in 1..Len(hist) :
          /\ WriteRaised(i) /\ hist[i].calls[2].op = "INSERT"
          /\ WriteRaised(j) /\ hist[j].calls[2].op = "UPDATE"

\* the excluded columns of its table that the candidate of call e names
ExcludedNamed(e) == {k \in Keys(Candidate(e)) : InList(k, Excluded(e))}

\* the candidate of call e names an excluded column whose text is not what the row
\* found for it holds
ExcludedDiffers(e) ==
    /\ e.found
    /\ \E k \in ExcludedNamed(e) : e.row[k] # PyStr(serialize_field(Get(Candidate(e), k)))

\* C34: for a configured table, a column of excluded_columns that the candidate names
\* is in no SELECT column list and in no INSERT or UPDATE; a candidate that differs
\* from the row found for it in excluded columns only is Skipped; and every row
\* the table held before the call holds afterwards what it held in its excluded
\* columns, a row that was added holding NULL there.
C34_ExcludedUntouched ==
    \A i \in Latest :
        Configured(hist[i]) =>
            /\ \A j \in 1..Len(hist[i].calls) : \A k \in 1..Len(Excluded(hist[i])) :
                  /\ Excluded(hist[i])[k] \notin hist[i].calls[j].columns
                  /\ ~HasKey(hist[i].calls[j].fields, Excluded(hist[i])[k])
            /\ (hist[i].found /\ DifferingFields(hist[i]) = {})
                  => (hist[i].outcome = "Skipped" /\ Writes(hist[i]) = {})
            /\ \A r \in 1..Len(DbAfter(i)[EntryTable(hist[i])]) :
                  \A k \in 1..Len(Excluded(hist[i])) :
                      DbAfter(i)[EntryTable(hist[i])][r][Excluded(hist[i])[k]]
                        = (IF r <= Len(hist[i].db0[EntryTable(hist[i])])
                           THEN hist[i].db0[EntryTable(hist[i])][r][Excluded(hist[i])[k]]
                           ELSE PyNone)

\* records that name id: one Updated, one Skipped although the row holds no id
C34_Witness ==
    \E j, k \in 1..Len(hist) :
        /\ ExcludedNamed(hist[j]) # {} /\ hist[j].outcome = "Updated"
        /\ ExcludedDiffers(hist[k]) /\ hist[k].outcome = "Skipped"

\* call e ended without a write being issued: the record was skipped (no
\* configuration, or no difference), or it failed on its unique key or on the lookup
EndedBeforeWrite(e) ==
    \/ e.outcome = "Skipped"
    \/ e.outcome = "KeyError"
    \/ e.outcome = "Failed" /\ Writes(e) = {}

\* C35: a call that skips the record, or fails it for a missing unique key or for an
\* error of the lookup, leaves every table of the store with the rows it had.
C35_NoWriteLeavesStore ==
    \A i \in 1..Len(hist) : EndedBeforeWrite(hist[i]) => DbAfter(i) = hist[i].db0

\* against a store that holds a row: a record skipped for no difference, and a record
\* failed for its missing unique key
C35_Witness ==
    \E i, j \in 1..Len(hist) :
        /\ hist[i].outcome = "Skipped" /\ hist[i].found
        /\ hist[j].outcome = "Failed" /\ hist[j].calls = <<>>
        /\ hist[j].db0["unit_test_records"] # <<>>

\* the table name of call e has a character that is no letter, digit or underscore
HasOtherCharacter(e) ==
    \E n \in 1..Len(Chars[EntryTable(e)]) : Chars[EntryTable(e)][n] \notin WordChars

\* call i raised no counter, global or of a table
NoCounterChanged(i) == TotalsAfter(i) = hist[i].totals0 /\ StatsAfter(i) = hist[i].stats0

\* C36: a record submitted under a table name with a character outside letters,
\* digits and underscore causes no statement and changes no counter, global or of
\* a table.
C36_InvalidNameNoEffect ==
    \A i \in 1..Len(hist) :
        HasOtherCharacter(hist[i]) => (hist[i].calls = <<>> /\ NoCounterChanged(i))

\* what records_differ returns for the row and the candidate of call e
DifferReturns(e) ==
    records_differ(ExistingRecord(e), Candidate(e), table_configs[EntryTable(e)].json_columns,
                   Excluded(e))

\* the field list the update branch builds for the row and the candidate of call e
RecomputedFields(e) ==
    UpdateFields(ExistingRecord(e), Candidate(e), table_configs[EntryTable(e)].json_columns,
                 Excluded(e))

\* C37: for the row a lookup found, records_differ is True exactly if the field list
\* the update branch builds is not empty; so a record is Skipped only when
\* records_differ is False, and the skip for an empty field list after a True is
\* never taken.
C37_DifferAgreesWithFieldList ==
    \A i \in Latest :
        hist[i].found =>
            /\ DifferReturns(hist[i]) <=> (RecomputedFields(hist[i]) # <<>>)
            /\ hist[i].outcome = "Skipped" => ~DifferReturns(hist[i])
            /\ DifferReturns(hist[i]) => Updates(hist[i]) # {}

\* a record Updated, and a record Skipped whose JSON text is not the text of the row
C37_Witness ==
    \E i, j \in 1..Len(hist) :
        /\ hist[i].found /\ hist[i].outcome = "Updated"
        /\ KeyOrderCase(hist[j]) /\ hist[j].outcome = "Skipped"

\* a str of spaces, tabs and newlines only, the empty str included
WhitespaceOnly(value) ==
    value.t = "str" /\ \A n \in 1..Len(value.s) : value.s[n] \in {" ", "\t", "\n"}

\* the JSON columns of unit_test_records among the fields records_differ compares
JsonFields(new_record) ==
    {i \in 1..Len(new_record) :
        /\ ~InList(new_record[i].k, table_configs.unit_test_records.excluded_columns)
        /\ InList(new_record[i].k, table_configs.unit_test_records.json_columns)}

\* the row holds NULL or a whitespace-only str for the column, the candidate None or ""
BothEmpty(existing_record, field) ==
    /\ field.k \in DOMAIN existing_record
    /\ existing_record[field.k] = PyNone \/ WhitespaceOnly(existing_record[field.k])
    /\ field.v \in {PyNone, PyStr(<<>>)}

====
